---- MODULE Spec2Model ----
(***************************************************************************)
(* Model of the Legifrance proxy core: the OAuth2 token cache              *)
(* (services/legifrance.py: get_token, _fetch_new_token,                   *)
(* _invalidate_token_cache), the transport (_post_legifrance) and the      *)
(* resolution engine (services/resolver.py: resolve_code_article).         *)
(*                                                                         *)
(* The code runs on one asyncio event loop: one task runs at a time, and   *)
(* another task runs only when the running one awaits something that is    *)
(* not ready (a network reply, a sleep, a busy lock).  `running` is the    *)
(* task that holds the loop; a task's synchronous steps need running = p,  *)
(* a wake-up (reply, timer, lock hand-over, new call) needs the loop free. *)
(***************************************************************************)
EXTENDS Integers, Sequences, FiniteSets, TLC

VARIABLES
    mode,               \* which scenario runs: "tok", "post", "conc" or "res"
    creds,              \* which of PISTE_CLIENT_ID, PISTE_CLIENT_SECRET are set
    api_base,           \* LEGIFRANCE_API_BASE
    clock,              \* time.time(), in seconds
    running,            \* the task holding the event loop, or NoProc
    access_token,       \* _access_token (NoToken is None)
    token_expires_at,   \* _token_expires_at (None is << >>, a value t is <<t>>)
    lock_holder,        \* the task inside `async with _token_lock`, or NoProc
    lock_waiters,       \* _token_lock._waiters, first come first served
    pc,                 \* each task's position
    ret,                \* value or exception leaving get_token for its caller
    result,             \* outcome of the task's top-level call
    issued,             \* tokens the token endpoint has issued so far
    tokReqs,            \* requests sent to the token endpoint so far
    cache_real_expiry,  \* real expiry (issue time + expires_in) of the cached token
    called_empty,       \* the cache was empty when the task called get_token
    first_fetch,        \* outcome of the first token request that completed
    attempt,            \* _post_legifrance: the loop variable of line 163
    refreshed_after_401, \* _post_legifrance: the flag of line 161
    last_exc,           \* _post_legifrance: last_exc (None is << >>)
    resp,               \* _post_legifrance: the last response (None is << >>)
    sent,               \* the bearer token of the task's API request in flight
    nreq,               \* API requests the task's current call has sent
    invals,             \* cache invalidations the task's current call has made
    delays,             \* backoff sleeps of the current call, in ms
    hist,               \* outcomes of the current call's _do_post calls, in order
    hints,              \* resolve_code_article: code_hint, article_hint, date_hint
    stage,              \* resolve_code_article: the lf_search / lf_get_article call under way
    code_title,         \* resolve_code_article: line 184
    article_num,        \* resolve_code_article: line 185
    ids,                \* resolve_code_article: line 198
    outcome,            \* what resolve_code_article returned or raised
    calls,              \* the _post_legifrance calls of the resolution: endpoint and payload
    body_no_id,         \* whether the body the last search returned carries no prefixed id
    body_ids,           \* the distinct prefixed ids of that body, by place of first occurrence
    ext_body,           \* _extract_legiarti_id_from_search alone: its argument
    runs,               \* and what its successive runs returned
    request,            \* dispatch_from_make_json: the payload of each task
    response            \* dispatch_from_make_json: what it returned or let escape

tokVars  == <<access_token, token_expires_at, cache_real_expiry>>
lockVars == <<lock_holder, lock_waiters>>
envVars  == <<mode, creds, api_base>>
extVars == <<ext_body, runs>>
dispVars == <<request, response>>
ghostVars == <<issued, tokReqs, called_empty, first_fetch>>
postVars == <<attempt, refreshed_after_401, last_exc, resp, sent, nreq, invals,
              delays, hist>>
resVars == <<hints, stage, code_title, article_num, ids, outcome, calls,
            body_no_id, body_ids>>
vars == <<mode, creds, api_base, clock, running, access_token, token_expires_at,
          lock_holder, lock_waiters, pc, ret, result, issued, tokReqs,
          cache_real_expiry, called_empty, first_fetch,
          attempt, refreshed_after_401, last_exc, resp, sent, nreq, invals,
          delays, hist, hints, stage, code_title, article_num, ids, outcome,
          calls, body_no_id, body_ids, ext_body, runs, request, response>>

(***************************************************************************)
(* Bounds of the model                                                     *)
(***************************************************************************)
TokCallers == 3         \* concurrent get_token callers in SpecTok
ConcCallers == 2        \* concurrent _post_legifrance calls in SpecConc
LiveCallers == 2        \* concurrent get_token callers in SpecLive
MaxClock == 90          \* the clock stops advancing here
TickSeconds == 30       \* seconds one Tick adds to the clock
ShortLife == 30         \* an expires_in below the safety margin
LongLife == 90          \* an expires_in above the safety margin
MaxHintLen == 2         \* longest enumerated code / article hint
MaxIds == 11            \* most distinct ids in one search response
MaxRuns == 2            \* runs of the extraction over one body

(***************************************************************************)
(* Program constants                                                       *)
(***************************************************************************)
SafetyMargin == 60      \* legifrance.py:93  "- 60"
DefaultExpiresIn == 3600 \* legifrance.py:89 payload.get("expires_in", 3600)
MaxAttempts == 3        \* legifrance.py:163 range(3)
BackoffBaseMs == 200    \* legifrance.py:175 and 182: 0.2 s
SearchPageSize == 10    \* resolver.py:82 "pageSize": 10
FallbackPageSize == 5   \* resolver.py:142 "pageSize": 5
AmbiguousAbove == 3     \* resolver.py:206 len(ids) > 3
MaxCandidates == 10     \* resolver.py:209 ids[:10]

NoProc == 0
NoToken == 0
None == << >>

\* the scenarios in which resolve_code_article runs: called directly, or
\* through dispatch_from_make_json
Resolving == mode \in {"res", "disp"}

\* the scenarios whose tasks call get_token directly
BareGetToken == mode \in {"tok", "live"}

\* the tasks of the running scenario
Procs == 1..(IF mode = "tok" THEN TokCallers
             ELSE IF mode = "conc" THEN ConcCallers
             ELSE IF mode = "live" THEN LiveCallers ELSE 1)

\* expires_in as the token endpoint reports it; None is an absent field
ExpiresInValues == {<<ShortLife>>, <<LongLife>>, None}

\* replies of the token endpoint: a 200 with a token, a non-200 status,
\* a 200 without access_token, a timeout or connection failure
AllTokenReplies ==
    [kind : {"ok"}, expires_in : ExpiresInValues]
    \cup [kind : {"http_error", "no_token", "net_error"}, expires_in : {None}]

\* the concurrent scenario draws from fewer replies
TokenReplies ==
    IF mode = "conc"
    THEN {r \in AllTokenReplies : r.kind \in {"ok", "http_error"}
                                  /\ r.expires_in \in {<<ShortLife>>, None}}
    ELSE IF Resolving
    THEN {r \in AllTokenReplies : r.kind \in {"ok", "http_error"}
                                  /\ r.expires_in = None}
    ELSE AllTokenReplies

\* config.py lines 11-12: each of the two settings is set to a non-empty
\* value (TRUE) or is unset or empty (FALSE)
Credentials == [client_id : BOOLEAN, client_secret : BOOLEAN]

IdIsEnough == creds.client_id
\* legifrance.py line 65, negated: both settings are truthy
HasCredentials == creds.client_id /\ creds.client_secret

\* the scenarios whose tasks call _post_legifrance
Posting == mode \in {"post", "conc", "res", "disp"}

\* config.py lines 19-22: the values of LEGIFRANCE_API_BASE; the variable may
\* be set to the empty string, and the default ends with /consult
EmptyBase == << >>
DefaultBase == <<"h", "/", "c", "o", "n", "s", "u", "l", "t">>
AllApiBases ==
    {EmptyBase, <<"/">>, <<"/", "/">>, <<"h">>, <<"h", "/">>, DefaultBase,
     DefaultBase \o <<"/">>}
\* a scenario with one call at a time takes every value, the others the
\* empty one and the default; a scenario without _post_legifrance reads none
ApiBases ==
    IF mode = "post" THEN AllApiBases
    ELSE IF Posting THEN {EmptyBase, DefaultBase}
    ELSE {DefaultBase}

NoRet == [kind |-> "none", token |-> NoToken, src |-> "none"]
NoFetch == [kind |-> "none", expires_at |-> None]

(***************************************************************************)
(* Strings are sequences of one-character strings                          *)
(***************************************************************************)
\* A character that a TLA+ string can hold is written as itself; a character
\* above U+00FF is written as the name of its code point, "U+0663".
\* The controls and Latin-1 spaces below stand raw between their quotes.
VT == ""            \* U+000B, vertical tab
FS == ""            \* U+001C
GS == ""            \* U+001D
RS == ""            \* U+001E
US == ""            \* U+001F
NEL == ""            \* U+0085, next line
NBSP == " "           \* U+00A0, no-break space
\* the spaces above U+00FF
WideSpaces ==
    {"U+1680", "U+2000", "U+2001", "U+2002", "U+2003", "U+2004", "U+2005",
     "U+2006", "U+2007", "U+2008", "U+2009", "U+200A", "U+2028", "U+2029",
     "U+202F", "U+205F", "U+3000"}
\* the characters c with c.isspace(), which are those of the regex class \s
\* on a str pattern
Spaces == {" ", "\t", "\n", "\r", "\f", VT, FS, GS, RS, US, NEL, NBSP} \cup WideSpaces
\* str.isspace / the regex class \s
IsSpace(c) == c \in Spaces
\* the regex class [A-Za-z]
IsLetter(c) ==
    c \in {"A", "B", "C", "D", "E", "F", "G", "H", "I", "J", "K", "L", "M",
           "N", "O", "P", "Q", "R", "S", "T", "U", "V", "W", "X", "Y",
           "Z", "a", "b", "c", "d", "e", "f", "g", "h", "i", "j", "k",
           "l", "m", "n", "o", "p", "q", "r", "s", "t", "u", "v", "w",
           "x", "y", "z"}
\* the decimal digits (Unicode category Nd, Unicode 14.0): each script's
\* digits from zero to nine
DigitChars == <<"0", "1", "2", "3", "4", "5", "6", "7", "8", "9">>
WideDigits ==
   {<<"U+0660", "U+0661", "U+0662", "U+0663", "U+0664", "U+0665", "U+0666",
     "U+0667", "U+0668", "U+0669">>,
    <<"U+06F0", "U+06F1", "U+06F2", "U+06F3", "U+06F4", "U+06F5", "U+06F6",
     "U+06F7", "U+06F8", "U+06F9">>,
    <<"U+07C0", "U+07C1", "U+07C2", "U+07C3", "U+07C4", "U+07C5", "U+07C6",
     "U+07C7", "U+07C8", "U+07C9">>,
    <<"U+0966", "U+0967", "U+0968", "U+0969", "U+096A", "U+096B", "U+096C",
     "U+096D", "U+096E", "U+096F">>,
    <<"U+09E6", "U+09E7", "U+09E8", "U+09E9", "U+09EA", "U+09EB", "U+09EC",
     "U+09ED", "U+09EE", "U+09EF">>,
    <<"U+0A66", "U+0A67", "U+0A68", "U+0A69", "U+0A6A", "U+0A6B", "U+0A6C",
     "U+0A6D", "U+0A6E", "U+0A6F">>,
    <<"U+0AE6", "U+0AE7", "U+0AE8", "U+0AE9", "U+0AEA", "U+0AEB", "U+0AEC",
     "U+0AED", "U+0AEE", "U+0AEF">>,
    <<"U+0B66", "U+0B67", "U+0B68", "U+0B69", "U+0B6A", "U+0B6B", "U+0B6C",
     "U+0B6D", "U+0B6E", "U+0B6F">>,
    <<"U+0BE6", "U+0BE7", "U+0BE8", "U+0BE9", "U+0BEA", "U+0BEB", "U+0BEC",
     "U+0BED", "U+0BEE", "U+0BEF">>,
    <<"U+0C66", "U+0C67", "U+0C68", "U+0C69", "U+0C6A", "U+0C6B", "U+0C6C",
     "U+0C6D", "U+0C6E", "U+0C6F">>,
    <<"U+0CE6", "U+0CE7", "U+0CE8", "U+0CE9", "U+0CEA", "U+0CEB", "U+0CEC",
     "U+0CED", "U+0CEE", "U+0CEF">>,
    <<"U+0D66", "U+0D67", "U+0D68", "U+0D69", "U+0D6A", "U+0D6B", "U+0D6C",
     "U+0D6D", "U+0D6E", "U+0D6F">>,
    <<"U+0DE6", "U+0DE7", "U+0DE8", "U+0DE9", "U+0DEA", "U+0DEB", "U+0DEC",
     "U+0DED", "U+0DEE", "U+0DEF">>,
    <<"U+0E50", "U+0E51", "U+0E52", "U+0E53", "U+0E54", "U+0E55", "U+0E56",
     "U+0E57", "U+0E58", "U+0E59">>,
    <<"U+0ED0", "U+0ED1", "U+0ED2", "U+0ED3", "U+0ED4", "U+0ED5", "U+0ED6",
     "U+0ED7", "U+0ED8", "U+0ED9">>,
    <<"U+0F20", "U+0F21", "U+0F22", "U+0F23", "U+0F24", "U+0F25", "U+0F26",
     "U+0F27", "U+0F28", "U+0F29">>,
    <<"U+1040", "U+1041", "U+1042", "U+1043", "U+1044", "U+1045", "U+1046",
     "U+1047", "U+1048", "U+1049">>,
    <<"U+1090", "U+1091", "U+1092", "U+1093", "U+1094", "U+1095", "U+1096",
     "U+1097", "U+1098", "U+1099">>,
    <<"U+17E0", "U+17E1", "U+17E2", "U+17E3", "U+17E4", "U+17E5", "U+17E6",
     "U+17E7", "U+17E8", "U+17E9">>,
    <<"U+1810", "U+1811", "U+1812", "U+1813", "U+1814", "U+1815", "U+1816",
     "U+1817", "U+1818", "U+1819">>,
    <<"U+1946", "U+1947", "U+1948", "U+1949", "U+194A", "U+194B", "U+194C",
     "U+194D", "U+194E", "U+194F">>,
    <<"U+19D0", "U+19D1", "U+19D2", "U+19D3", "U+19D4", "U+19D5", "U+19D6",
     "U+19D7", "U+19D8", "U+19D9">>,
    <<"U+1A80", "U+1A81", "U+1A82", "U+1A83", "U+1A84", "U+1A85", "U+1A86",
     "U+1A87", "U+1A88", "U+1A89">>,
    <<"U+1A90", "U+1A91", "U+1A92", "U+1A93", "U+1A94", "U+1A95", "U+1A96",
     "U+1A97", "U+1A98", "U+1A99">>,
    <<"U+1B50", "U+1B51", "U+1B52", "U+1B53", "U+1B54", "U+1B55", "U+1B56",
     "U+1B57", "U+1B58", "U+1B59">>,
    <<"U+1BB0", "U+1BB1", "U+1BB2", "U+1BB3", "U+1BB4", "U+1BB5", "U+1BB6",
     "U+1BB7", "U+1BB8", "U+1BB9">>,
    <<"U+1C40", "U+1C41", "U+1C42", "U+1C43", "U+1C44", "U+1C45", "U+1C46",
     "U+1C47", "U+1C48", "U+1C49">>,
    <<"U+1C50", "U+1C51", "U+1C52", "U+1C53", "U+1C54", "U+1C55", "U+1C56",
     "U+1C57", "U+1C58", "U+1C59">>,
    <<"U+A620", "U+A621", "U+A622", "U+A623", "U+A624", "U+A625", "U+A626",
     "U+A627", "U+A628", "U+A629">>,
    <<"U+A8D0", "U+A8D1", "U+A8D2", "U+A8D3", "U+A8D4", "U+A8D5", "U+A8D6",
     "U+A8D7", "U+A8D8", "U+A8D9">>,
    <<"U+A900", "U+A901", "U+A902", "U+A903", "U+A904", "U+A905", "U+A906",
     "U+A907", "U+A908", "U+A909">>,
    <<"U+A9D0", "U+A9D1", "U+A9D2", "U+A9D3", "U+A9D4", "U+A9D5", "U+A9D6",
     "U+A9D7", "U+A9D8", "U+A9D9">>,
    <<"U+A9F0", "U+A9F1", "U+A9F2", "U+A9F3", "U+A9F4", "U+A9F5", "U+A9F6",
     "U+A9F7", "U+A9F8", "U+A9F9">>,
    <<"U+AA50", "U+AA51", "U+AA52", "U+AA53", "U+AA54", "U+AA55", "U+AA56",
     "U+AA57", "U+AA58", "U+AA59">>,
    <<"U+ABF0", "U+ABF1", "U+ABF2", "U+ABF3", "U+ABF4", "U+ABF5", "U+ABF6",
     "U+ABF7", "U+ABF8", "U+ABF9">>,
    <<"U+FF10", "U+FF11", "U+FF12", "U+FF13", "U+FF14", "U+FF15", "U+FF16",
     "U+FF17", "U+FF18", "U+FF19">>,
    <<"U+104A0", "U+104A1", "U+104A2", "U+104A3", "U+104A4", "U+104A5",
     "U+104A6", "U+104A7", "U+104A8", "U+104A9">>,
    <<"U+10D30", "U+10D31", "U+10D32", "U+10D33", "U+10D34", "U+10D35",
     "U+10D36", "U+10D37", "U+10D38", "U+10D39">>,
    <<"U+11066", "U+11067", "U+11068", "U+11069", "U+1106A", "U+1106B",
     "U+1106C", "U+1106D", "U+1106E", "U+1106F">>,
    <<"U+110F0", "U+110F1", "U+110F2", "U+110F3", "U+110F4", "U+110F5",
     "U+110F6", "U+110F7", "U+110F8", "U+110F9">>,
    <<"U+11136", "U+11137", "U+11138", "U+11139", "U+1113A", "U+1113B",
     "U+1113C", "U+1113D", "U+1113E", "U+1113F">>,
    <<"U+111D0", "U+111D1", "U+111D2", "U+111D3", "U+111D4", "U+111D5",
     "U+111D6", "U+111D7", "U+111D8", "U+111D9">>,
    <<"U+112F0", "U+112F1", "U+112F2", "U+112F3", "U+112F4", "U+112F5",
     "U+112F6", "U+112F7", "U+112F8", "U+112F9">>,
    <<"U+11450", "U+11451", "U+11452", "U+11453", "U+11454", "U+11455",
     "U+11456", "U+11457", "U+11458", "U+11459">>,
    <<"U+114D0", "U+114D1", "U+114D2", "U+114D3", "U+114D4", "U+114D5",
     "U+114D6", "U+114D7", "U+114D8", "U+114D9">>,
    <<"U+11650", "U+11651", "U+11652", "U+11653", "U+11654", "U+11655",
     "U+11656", "U+11657", "U+11658", "U+11659">>,
    <<"U+116C0", "U+116C1", "U+116C2", "U+116C3", "U+116C4", "U+116C5",
     "U+116C6", "U+116C7", "U+116C8", "U+116C9">>,
    <<"U+11730", "U+11731", "U+11732", "U+11733", "U+11734", "U+11735",
     "U+11736", "U+11737", "U+11738", "U+11739">>,
    <<"U+118E0", "U+118E1", "U+118E2", "U+118E3", "U+118E4", "U+118E5",
     "U+118E6", "U+118E7", "U+118E8", "U+118E9">>,
    <<"U+11950", "U+11951", "U+11952", "U+11953", "U+11954", "U+11955",
     "U+11956", "U+11957", "U+11958", "U+11959">>,
    <<"U+11C50", "U+11C51", "U+11C52", "U+11C53", "U+11C54", "U+11C55",
     "U+11C56", "U+11C57", "U+11C58", "U+11C59">>,
    <<"U+11D50", "U+11D51", "U+11D52", "U+11D53", "U+11D54", "U+11D55",
     "U+11D56", "U+11D57", "U+11D58", "U+11D59">>,
    <<"U+11DA0", "U+11DA1", "U+11DA2", "U+11DA3", "U+11DA4", "U+11DA5",
     "U+11DA6", "U+11DA7", "U+11DA8", "U+11DA9">>,
    <<"U+16A60", "U+16A61", "U+16A62", "U+16A63", "U+16A64", "U+16A65",
     "U+16A66", "U+16A67", "U+16A68", "U+16A69">>,
    <<"U+16AC0", "U+16AC1", "U+16AC2", "U+16AC3", "U+16AC4", "U+16AC5",
     "U+16AC6", "U+16AC7", "U+16AC8", "U+16AC9">>,
    <<"U+16B50", "U+16B51", "U+16B52", "U+16B53", "U+16B54", "U+16B55",
     "U+16B56", "U+16B57", "U+16B58", "U+16B59">>,
    <<"U+1D7CE", "U+1D7CF", "U+1D7D0", "U+1D7D1", "U+1D7D2", "U+1D7D3",
     "U+1D7D4", "U+1D7D5", "U+1D7D6", "U+1D7D7">>,
    <<"U+1D7D8", "U+1D7D9", "U+1D7DA", "U+1D7DB", "U+1D7DC", "U+1D7DD",
     "U+1D7DE", "U+1D7DF", "U+1D7E0", "U+1D7E1">>,
    <<"U+1D7E2", "U+1D7E3", "U+1D7E4", "U+1D7E5", "U+1D7E6", "U+1D7E7",
     "U+1D7E8", "U+1D7E9", "U+1D7EA", "U+1D7EB">>,
    <<"U+1D7EC", "U+1D7ED", "U+1D7EE", "U+1D7EF", "U+1D7F0", "U+1D7F1",
     "U+1D7F2", "U+1D7F3", "U+1D7F4", "U+1D7F5">>,
    <<"U+1D7F6", "U+1D7F7", "U+1D7F8", "U+1D7F9", "U+1D7FA", "U+1D7FB",
     "U+1D7FC", "U+1D7FD", "U+1D7FE", "U+1D7FF">>,
    <<"U+1E140", "U+1E141", "U+1E142", "U+1E143", "U+1E144", "U+1E145",
     "U+1E146", "U+1E147", "U+1E148", "U+1E149">>,
    <<"U+1E2F0", "U+1E2F1", "U+1E2F2", "U+1E2F3", "U+1E2F4", "U+1E2F5",
     "U+1E2F6", "U+1E2F7", "U+1E2F8", "U+1E2F9">>,
    <<"U+1E950", "U+1E951", "U+1E952", "U+1E953", "U+1E954", "U+1E955",
     "U+1E956", "U+1E957", "U+1E958", "U+1E959">>,
    <<"U+1FBF0", "U+1FBF1", "U+1FBF2", "U+1FBF3", "U+1FBF4", "U+1FBF5",
     "U+1FBF6", "U+1FBF7", "U+1FBF8", "U+1FBF9">>}
DecimalDigits == {DigitChars} \cup WideDigits
DigitSet == {row[n] : row \in DecimalDigits, n \in 1..10}
\* the regex class \d on a str pattern
IsDigit(c) == c \in DigitSet

\* the end of the whitespace run that starts at i: the first j >= i with
\* s[j] not whitespace, or Len(s) + 1
RECURSIVE SkipSpaces(_, _)
SkipSpaces(s, i) ==
    IF i <= Len(s) /\ IsSpace(s[i]) THEN SkipSpaces(s, i + 1) ELSE i

RECURSIVE LStrip(_)
LStrip(s) == IF s # << >> /\ IsSpace(Head(s)) THEN LStrip(Tail(s)) ELSE s

RECURSIVE RStrip(_)
RStrip(s) ==
    IF s # << >> /\ IsSpace(s[Len(s)]) THEN RStrip(SubSeq(s, 1, Len(s) - 1)) ELSE s

\* str.strip()
Strip(s) == RStrip(LStrip(s))

\* re.sub(r"\s*-\s*", "-", s), scanning from position i
RECURSIVE CompactDashes(_, _)
CompactDashes(s, i) ==
    IF i > Len(s) THEN << >>
    ELSE LET j == SkipSpaces(s, i) IN
         IF j <= Len(s) /\ s[j] = "-"
         THEN <<"-">> \o CompactDashes(s, SkipSpaces(s, j + 1))
         ELSE <<s[i]>> \o CompactDashes(s, i + 1)

\* re.sub(r"^([A-Za-z])\s+(\d)", r"\1\2", s)
GlueLeadingLetter(s) ==
    IF Len(s) >= 3 /\ IsLetter(s[1]) /\ IsSpace(s[2])
       /\ SkipSpaces(s, 2) <= Len(s) /\ IsDigit(s[SkipSpaces(s, 2)])
    THEN <<s[1]>> \o SubSeq(s, SkipSpaces(s, 2), Len(s))
    ELSE s

\* re.sub(r"\s+", " ", s), scanning from position i
RECURSIVE CollapseSpaces(_, _)
CollapseSpaces(s, i) ==
    IF i > Len(s) THEN << >>
    ELSE IF IsSpace(s[i])
    THEN <<" ">> \o CollapseSpaces(s, SkipSpaces(s, i))
    ELSE <<s[i]>> \o CollapseSpaces(s, i + 1)

\* an absent value (Python None) is NoStr; a string s is <<s>>
NoStr == << >>
\* `not raw`: None or the empty string
Falsy(raw) == raw = NoStr \/ raw[1] = << >>

\* utils/normalize.py lines 7-29
normalize_article_num(raw) ==
    IF Falsy(raw) THEN NoStr
    ELSE <<CollapseSpaces(GlueLeadingLetter(CompactDashes(Strip(raw[1]), 1)), 1)>>

\* utils/normalize.py lines 32-40
normalize_code_title(raw) ==
    IF Falsy(raw) THEN NoStr
    ELSE <<CollapseSpaces(Strip(raw[1]), 1)>>

(***************************************************************************)
(* utils/dates.py: iso_date_to_millis                                      *)
(***************************************************************************)
\* int() of one decimal digit
DigitVal(c) == CHOOSE n \in 0..9 : \E row \in DecimalDigits : row[n + 1] = c

\* line 17: str.replace("/", "-")
SlashesToDashes(s) == [i \in 1..Len(s) |-> IF s[i] = "/" THEN "-" ELSE s[i]]

\* the value of a run of digits
RECURSIVE Number(_)
Number(s) ==
    IF s = << >> THEN 0 ELSE 10 * Number(SubSeq(s, 1, Len(s) - 1)) + DigitVal(s[Len(s)])

\* the regex class [1-9]
IsOneToNine(c) == c \in {"1", "2", "3", "4", "5", "6", "7", "8", "9"}

\* strptime's %m: 1[0-2]|0[1-9]|[1-9]
IsMonthField(f) ==
    \/ Len(f) = 1 /\ IsOneToNine(f[1])
    \/ Len(f) = 2 /\ f[1] = "0" /\ IsOneToNine(f[2])
    \/ Len(f) = 2 /\ f[1] = "1" /\ f[2] \in {"0", "1", "2"}

\* strptime's %d: 3[0-1]|[1-2]\d|0[1-9]|[1-9]| [1-9]
IsDayField(f) ==
    \/ Len(f) = 1 /\ IsOneToNine(f[1])
    \/ Len(f) = 2 /\ f[1] \in {"0", " "} /\ IsOneToNine(f[2])
    \/ Len(f) = 2 /\ f[1] \in {"1", "2"} /\ IsDigit(f[2])
    \/ Len(f) = 2 /\ f[1] = "3" /\ f[2] \in {"0", "1"}

FieldNumber(f) == IF f[1] = " " THEN Number(Tail(f)) ELSE Number(f)

IsLeap(y) == (y % 4 = 0 /\ y % 100 # 0) \/ y % 400 = 0
DaysInMonth(y, m) ==
    IF m = 2 THEN (IF IsLeap(y) THEN 29 ELSE 28)
    ELSE IF m \in {4, 6, 9, 11} THEN 30 ELSE 31

\* days from 1970-01-01 to y-m-d in the proleptic Gregorian calendar
DaysFromEpoch(y, m, d) ==
    LET yy == IF m <= 2 THEN y - 1 ELSE y
        era == yy \div 400
        yoe == yy - era * 400
        mp == IF m > 2 THEN m - 3 ELSE m + 9
        doy == (153 * mp + 2) \div 5 + d - 1
        doe == yoe * 365 + yoe \div 4 - yoe \div 100 + doy
    IN era * 146097 + doe - 719468

\* int(dt.timestamp() * 1000) of UTC midnight, n days from the epoch:
\* n * 86400000.  The value exceeds 32 bits, so it is kept as the pair
\* <<m, r>> that stands for m * 10^6 + r with 0 <= r < 10^6.
DaysToMillis(n) == <<n * 86 + (n * 4) \div 10, ((n * 4) % 10) * 100000>>

\* line 20: datetime.strptime(s, "%Y-%m-%d"): the year, month and day of a
\* string of the form YYYY-M-D, or << >> where strptime raises ValueError
ParseDate(s) ==
    IF ~(Len(s) >= 8 /\ (\A i \in 1..4 : IsDigit(s[i])) /\ s[5] = "-"
         /\ \E k \in 7..Len(s) - 1 : s[k] = "-")
    THEN << >>
    ELSE LET k == CHOOSE k \in 7..Len(s) - 1 :
                    s[k] = "-" /\ \A j \in 7..(k - 1) : s[j] # "-"
             mf == SubSeq(s, 6, k - 1)
             df == SubSeq(s, k + 1, Len(s))
         IN IF ~(IsMonthField(mf) /\ IsDayField(df)) THEN << >>
            ELSE LET y == Number(SubSeq(s, 1, 4))
                     m == FieldNumber(mf)
                     d == FieldNumber(df)
                 IN IF y >= 1 /\ d <= DaysInMonth(y, m) THEN <<y, m, d>> ELSE << >>

\* utils/dates.py lines 7-21.  The result is [kind |-> "none"] for None,
\* [kind |-> "val"] with the milliseconds, or [kind |-> "ValueError"].
NoMillis == <<0, 0>>
iso_date_to_millis(date_str) ==
    IF date_str = << >> \/ date_str[1] = << >>
    THEN [kind |-> "none", millis |-> NoMillis]
    ELSE LET ymd == ParseDate(SlashesToDashes(Strip(date_str[1])))
         IN IF ymd = << >>
            THEN [kind |-> "ValueError", millis |-> NoMillis]
            ELSE [kind |-> "val",
                  millis |-> DaysToMillis(DaysFromEpoch(ymd[1], ymd[2], ymd[3]))]

(***************************************************************************)
(* JSON values: [t |-> type, v |-> value].  A dict's value is a function   *)
(* from its keys; a string's value is its characters.                      *)
(***************************************************************************)
JNull == [t |-> "null", v |-> 0]
JStr(s) == [t |-> "str", v |-> s]
JNum(n) == [t |-> "num", v |-> n]
JList(items) == [t |-> "list", v |-> items]
JDict(f) == [t |-> "dict", v |-> f]
JBool(b) == [t |-> "bool", v |-> b]
\* the dict with no key
NoKeys == [k \in {} |-> JNull]

\* dict.get(k): None when the key is absent
Get(d, k) == IF k \in DOMAIN d.v THEN d.v[k] ELSE JNull

\* Python truth value, as `x or y` and `if x` test it
Truthy(x) ==
    CASE x.t = "null" -> FALSE
      [] x.t = "str" -> x.v # << >>
      [] x.t = "num" -> x.v # 0
      [] x.t = "list" -> x.v # << >>
      [] x.t = "dict" -> DOMAIN x.v # {}
      [] x.t = "bool" -> x.v

\* x or y
Or(x, y) == IF Truthy(x) THEN x ELSE y

\* str.startswith
StartsWith(s, prefix) ==
    Len(s) >= Len(prefix) /\ SubSeq(s, 1, Len(prefix)) = prefix

LEGIARTI == <<"L", "E", "G", "I", "A", "R", "T", "I">>

AnyStringIsId(x) == x.t = "str"
\* resolver.py lines 111 and 116
IsLegiartiId(x) == x.t = "str" /\ StartsWith(x.v, LEGIARTI)

\* resolver.py lines 108-112: the ids of one result's "articles" list
RECURSIVE ArticleIds(_)
ArticleIds(arts) ==
    IF arts = << >> THEN << >>
    ELSE LET a == Head(arts) IN
         (IF a.t = "dict" /\ IsLegiartiId(Get(a, "id")) THEN <<Get(a, "id").v>> ELSE << >>)
         \o ArticleIds(Tail(arts))

\* resolver.py lines 102-117: the ids of one result
ResultIds(r) ==
    IF r.t # "dict" THEN << >>
    ELSE LET arts == Or(Get(r, "articles"), JList(<< >>)) IN
         (IF arts.t = "list" THEN ArticleIds(arts.v) ELSE << >>)
         \o (IF IsLegiartiId(Get(r, "id")) THEN <<Get(r, "id").v>> ELSE << >>)

\* resolver.py lines 101-117
RECURSIVE CollectIds(_)
CollectIds(results) ==
    IF results = << >> THEN << >>
    ELSE ResultIds(Head(results)) \o CollectIds(Tail(results))

\* a string that starts with LEGIARTI
HasPrefix(x) ==
    x.t = "str" /\ Len(x.v) >= 8 /\ \A i \in 1..8 : x.v[i] = LEGIARTI[i]

\* a JSON object whose "results" is missing, null, no list, or a list whose
\* objects carry no prefixed id, neither directly nor in an "articles" list
YieldsNoId(r) ==
    /\ r.t = "dict"
    /\ LET res == Get(r, "results") IN
       res.t = "list" =>
           \A i \in 1..Len(res.v) :
               res.v[i].t = "dict" =>
                   /\ ~HasPrefix(Get(res.v[i], "id"))
                   /\ LET arts == Get(res.v[i], "articles") IN
                      arts.t = "list" =>
                          \A j \in 1..Len(arts.v) :
                              arts.v[j].t = "dict" => ~HasPrefix(Get(arts.v[j], "id"))

\* the places of a body where a prefixed id stands: <<i, j, x>> is the id x
\* of entry j of the "articles" list of result i, or, with j = 0, the id x
\* that result i carries itself
Occurrences(r) ==
    IF r.t # "dict" \/ Get(r, "results").t # "list" THEN {}
    ELSE LET res == Get(r, "results").v
             Arts(i) == Get(res[i], "articles")
         IN {<<i, 0, Get(res[i], "id").v>> :
                 i \in {k \in 1..Len(res) : res[k].t = "dict" /\ HasPrefix(Get(res[k], "id"))}}
            \cup UNION {{<<i, j, Get(Arts(i).v[j], "id").v>> :
                            j \in {l \in 1..Len(Arts(i).v) :
                                      /\ Arts(i).v[l].t = "dict"
                                      /\ HasPrefix(Get(Arts(i).v[l], "id"))}} :
                        i \in {k \in 1..Len(res) : res[k].t = "dict" /\ Arts(k).t = "list"}}

\* place o1 is read before place o2: an earlier result, or the same result
\* and an "articles" entry before a later entry or before the result's own id
Before(o1, o2) ==
    \/ o1[1] < o2[1]
    \/ o1[1] = o2[1] /\ o1[2] # 0 /\ (o2[2] = 0 \/ o1[2] < o2[2])

\* the first place of each id
FirstPlaces(r) ==
    {o \in Occurrences(r) : \A q \in Occurrences(r) : q[3] = o[3] => ~Before(q, o)}

\* the distinct prefixed ids of a body, ordered by their first places
FirstSeenIds(r) ==
    LET F == FirstPlaces(r) IN
    [k \in 1..Cardinality(F) |->
        (CHOOSE o \in F : Cardinality({q \in F : Before(q, o)}) = k - 1)[3]]

KeepAll(xs) == xs
\* resolver.py lines 119-126: drop repeats, keep the first occurrences
Dedupe(xs) ==
    LET RECURSIVE Go(_, _)
        Go(i, uniq) ==
            IF i > Len(xs) THEN uniq
            ELSE IF \E j \in 1..Len(uniq) : uniq[j] = xs[i]
            THEN Go(i + 1, uniq)
            ELSE Go(i + 1, Append(uniq, xs[i]))
    IN Go(1, << >>)

\* resolver.py lines 91-126.  A response that is no dict has no .get:
\* the result is then [kind |-> "AttributeError"].
extract_legiarti_id_from_search(search_resp) ==
    IF search_resp.t # "dict" THEN [kind |-> "AttributeError", ids |-> << >>]
    ELSE LET results == Or(Get(search_resp, "results"), JList(<< >>)) IN
         IF results.t # "list" THEN [kind |-> "val", ids |-> << >>]
         ELSE [kind |-> "val", ids |-> Dedupe(CollectIds(results.v))]

\* resolver.py lines 150-167
extract_title_from_article_resp(article_resp) ==
    IF article_resp.t # "dict" THEN JNull
    ELSE LET a == Get(article_resp, "article")
             art == IF a.t = "dict" THEN a ELSE article_resp
             titles == Or(Or(Get(art, "textTitles"), Get(art, "titles")), JList(<< >>))
         IN IF titles.t = "list" /\ titles.v # << >> /\ titles.v[1].t = "dict"
            THEN Or(Get(titles.v[1], "title"), Get(titles.v[1], "titreLong"))
            ELSE JNull

(***************************************************************************)
(* get_token, lines 105-112: the validity test of the cached token         *)
(***************************************************************************)
CacheValid(tok, exp, now) ==
    /\ tok # NoToken
    /\ exp # None
    /\ exp[1] # 0
    /\ now < exp[1]

\* line 106, before the lock
FirstCheck(now) == CacheValid(access_token, token_expires_at, now)

RecheckSkipped(now) == FALSE
\* line 111, under the lock
Recheck(now) == CacheValid(access_token, token_expires_at, now)

\* line 89: int(payload.get("expires_in", 3600))
ExpiresIn(field) == IF field = None THEN DefaultExpiresIn ELSE field[1]

NoMargin(now, expires_in) == now + expires_in
\* line 93: time.time() + expires_in - 60
ExpiresAt(now, expires_in) == now + expires_in - SafetyMargin

(***************************************************************************)
(* Results of calls                                                        *)
(***************************************************************************)
\* the outcome of a _post_legifrance call
PostResult(k, st, why, emb) ==
    [kind |-> k, status |-> st, why |-> why, embedded |-> emb]

\* what resolve_code_article returned (kind "Resolved") or raised
Outcome(kind, id, title, art, date, cands, raw, err) ==
    [kind |-> kind, legiarti_id |-> id, title |-> title, article_num |-> art,
     date_version |-> date, candidates |-> cands, raw |-> raw, error |-> err]

NoError == PostResult("none", 0, "none", None)
NoOutcome == Outcome("none", NoStr, JNull, NoStr, NoStr, << >>, JNull, NoError)
Raise(kind, err) == Outcome(kind, NoStr, JNull, NoStr, NoStr, << >>, JNull, err)

(***************************************************************************)
(* Initial state: module import, nothing cached, lock free                 *)
(***************************************************************************)
\* no payload, and no response yet
NoRequest == JNull
NoResponse == [kind |-> "none", body |-> JNull]

\* a scenario without a bare extraction and without dispatcher payloads
NoInputs ==
    /\ ext_body = JNull
    /\ request = [p \in Procs |-> NoRequest]

InitCommon ==
    /\ creds \in Credentials
    /\ api_base \in ApiBases
    /\ clock = 0
    /\ running = NoProc
    /\ access_token = NoToken
    /\ token_expires_at = None
    /\ cache_real_expiry = 0
    /\ lock_holder = NoProc
    /\ lock_waiters = << >>
    /\ pc = [p \in Procs |-> "idle"]
    /\ ret = [p \in Procs |-> NoRet]
    /\ result = [p \in Procs |-> NoRet]
    /\ issued = 0
    /\ tokReqs = 0
    /\ called_empty = [p \in Procs |-> FALSE]
    /\ first_fetch = NoFetch
    /\ attempt = [p \in Procs |-> 0]
    /\ refreshed_after_401 = [p \in Procs |-> FALSE]
    /\ last_exc = [p \in Procs |-> None]
    /\ resp = [p \in Procs |-> None]
    /\ sent = [p \in Procs |-> NoToken]
    /\ nreq = [p \in Procs |-> 0]
    /\ invals = [p \in Procs |-> 0]
    /\ delays = [p \in Procs |-> << >>]
    /\ hist = [p \in Procs |-> << >>]
    /\ hints = [p \in Procs |-> <<NoStr, NoStr, NoStr>>]
    /\ stage = [p \in Procs |-> "none"]
    /\ code_title = [p \in Procs |-> NoStr]
    /\ article_num = [p \in Procs |-> NoStr]
    /\ ids = [p \in Procs |-> << >>]
    /\ outcome = [p \in Procs |-> NoOutcome]
    /\ calls = [p \in Procs |-> << >>]
    /\ body_no_id = [p \in Procs |-> FALSE]
    /\ body_ids = [p \in Procs |-> << >>]
    /\ runs = << >>
    /\ response = [p \in Procs |-> NoResponse]

InitTok == mode = "tok" /\ InitCommon /\ NoInputs

(***************************************************************************)
(* A caller starts get_token (line 98)                                     *)
(***************************************************************************)
CallGetToken(p) ==
    /\ BareGetToken
    /\ running = NoProc
    /\ pc[p] = "idle"
    /\ running' = p
    /\ pc' = [pc EXCEPT ![p] = "gt_check1"]
    /\ called_empty' = [called_empty EXCEPT ![p] = (access_token = NoToken)]
    /\ UNCHANGED <<resVars, postVars, envVars, extVars, dispVars, clock, tokVars, lockVars, ret, result, issued,
                   tokReqs, first_fetch>>

(***************************************************************************)
(* get_token lines 105-107: return the cached token when it is valid       *)
(***************************************************************************)
GetTokenCheck(p) ==
    /\ running = p
    /\ pc[p] = "gt_check1"
    /\ IF FirstCheck(clock)
       THEN /\ ret' = [ret EXCEPT ![p] =
                    [kind |-> "val", token |-> access_token, src |-> "cache"]]
            /\ pc' = [pc EXCEPT ![p] = "gt_ret"]
       ELSE /\ pc' = [pc EXCEPT ![p] = "gt_lock"]
            /\ UNCHANGED ret
    /\ UNCHANGED <<resVars, postVars, envVars, extVars, dispVars, clock, running, tokVars, lockVars, result, ghostVars>>

(***************************************************************************)
(* get_token line 109: asyncio.Lock.acquire.  The lock is taken at once    *)
(* when it is free and nobody waits; otherwise the task queues and yields. *)
(***************************************************************************)
NeverReleased(holder) == holder
\* line 109, `async with _token_lock`: leaving the block, by return or by
\* exception, releases the lock
Release(holder) == NoProc

LockAlwaysFree == TRUE
\* asyncio.Lock.acquire: free, and no earlier waiter
LockFree == lock_holder = NoProc /\ lock_waiters = << >>

LockAcquire(p) ==
    /\ running = p
    /\ pc[p] = "gt_lock"
    /\ IF LockFree
       THEN /\ lock_holder' = p
            /\ pc' = [pc EXCEPT ![p] = "gt_check2"]
            /\ UNCHANGED <<lock_waiters, running>>
       ELSE /\ lock_waiters' = Append(lock_waiters, p)
            /\ pc' = [pc EXCEPT ![p] = "gt_wait"]
            /\ running' = NoProc
            /\ UNCHANGED lock_holder
    /\ UNCHANGED <<resVars, postVars, envVars, extVars, dispVars, clock, tokVars, ret, result, ghostVars>>

(***************************************************************************)
(* asyncio.Lock: release woke the first waiter; it takes the lock          *)
(***************************************************************************)
LockGranted(p) ==
    /\ running = NoProc
    /\ pc[p] = "gt_wait"
    /\ lock_holder = NoProc
    /\ lock_waiters # << >>
    /\ Head(lock_waiters) = p
    /\ lock_holder' = p
    /\ lock_waiters' = Tail(lock_waiters)
    /\ running' = p
    /\ pc' = [pc EXCEPT ![p] = "gt_check2"]
    /\ UNCHANGED <<resVars, postVars, envVars, extVars, dispVars, clock, tokVars, ret, result, ghostVars>>

(***************************************************************************)
(* get_token lines 110-113: re-check under the lock, else fetch            *)
(***************************************************************************)
GetTokenRecheck(p) ==
    /\ running = p
    /\ pc[p] = "gt_check2"
    /\ lock_holder = p
    /\ IF Recheck(clock)
       THEN /\ ret' = [ret EXCEPT ![p] =
                    [kind |-> "val", token |-> access_token, src |-> "cache"]]
            /\ lock_holder' = Release(p)
            /\ pc' = [pc EXCEPT ![p] = "gt_ret"]
       ELSE /\ pc' = [pc EXCEPT ![p] = "fetch_start"]
            /\ UNCHANGED <<ret, lock_holder>>
    /\ UNCHANGED <<resVars, postVars, envVars, extVars, dispVars, clock, running, tokVars, lock_waiters, result, ghostVars>>

(***************************************************************************)
(* _fetch_new_token lines 65-76: credentials test, then the token request  *)
(***************************************************************************)
FetchStart(p) ==
    /\ running = p
    /\ pc[p] = "fetch_start"
    /\ IF ~HasCredentials
       THEN /\ ret' = [ret EXCEPT ![p] =
                    [kind |-> "AuthError", token |-> NoToken, src |-> "none"]]
            /\ lock_holder' = Release(p)
            /\ pc' = [pc EXCEPT ![p] = "gt_ret"]
            /\ UNCHANGED <<tokReqs, running>>
       ELSE /\ tokReqs' = tokReqs + 1
            /\ pc' = [pc EXCEPT ![p] = "fetch_wait"]
            /\ running' = NoProc
            /\ UNCHANGED <<ret, lock_holder>>
    /\ UNCHANGED <<resVars, postVars, envVars, extVars, dispVars, clock, tokVars, lock_waiters, result, issued,
                   called_empty, first_fetch>>

(***************************************************************************)
(* _fetch_new_token lines 76-95: the token endpoint's reply arrives.       *)
(* get_token's `async with` releases the lock on return and on exception.  *)
(***************************************************************************)
ClearedOnFailure(r) == IF r.kind = "ok" THEN issued + 1 ELSE NoToken
\* lines 78-92: every failure raises before _access_token is assigned
TokenAfter(r) == IF r.kind = "ok" THEN issued + 1 ELSE access_token

TokenResponse(p, r) ==
    /\ running = NoProc
    /\ pc[p] = "fetch_wait"
    /\ running' = p
    /\ lock_holder' = Release(p)
    /\ pc' = [pc EXCEPT ![p] = "gt_ret"]
    /\ access_token' = TokenAfter(r)
    /\ IF r.kind = "ok"
       THEN /\ issued' = issued + 1
            /\ token_expires_at' = <<ExpiresAt(clock, ExpiresIn(r.expires_in))>>
            /\ cache_real_expiry' = clock + ExpiresIn(r.expires_in)
            /\ ret' = [ret EXCEPT ![p] =
                    [kind |-> "val", token |-> issued + 1, src |-> "fresh"]]
       ELSE /\ ret' = [ret EXCEPT ![p] =
                    [kind |-> IF r.kind = "net_error" THEN "NetError" ELSE "AuthError",
                     token |-> NoToken, src |-> "none"]]
            /\ UNCHANGED <<issued, token_expires_at, cache_real_expiry>>
    /\ first_fetch' =
         IF first_fetch.kind # "none" THEN first_fetch
         ELSE [kind |-> r.kind,
               expires_at |-> IF r.kind = "ok"
                              THEN <<ExpiresAt(clock, ExpiresIn(r.expires_in))>>
                              ELSE None]
    /\ UNCHANGED <<resVars, postVars, envVars, extVars, dispVars, clock, lock_waiters, result, tokReqs, called_empty>>

(***************************************************************************)
(* get_token returns (or raises) to the caller of a bare get_token call    *)
(***************************************************************************)
GetTokenReturn(p) ==
    /\ BareGetToken
    /\ running = p
    /\ pc[p] = "gt_ret"
    /\ result' = [result EXCEPT ![p] = ret[p]]
    /\ ret' = [ret EXCEPT ![p] = NoRet]
    /\ pc' = [pc EXCEPT ![p] = "done"]
    /\ running' = NoProc
    /\ UNCHANGED <<resVars, postVars, envVars, extVars, dispVars, clock, tokVars, lockVars, ghostVars>>

(***************************************************************************)
(* _post_legifrance                                                        *)
(***************************************************************************)
\* statuses the API is made to answer with
ApiStatuses == {200, 401, 404, 429, 503}

\* replies to an API request: a response, or a timeout / connection failure;
\* body is "json" for a decodable body, "bad" for an empty or non-JSON one
AllApiReplies ==
    [kind : {"resp"}, status : ApiStatuses, body : {"json"}]
    \cup [kind : {"resp"}, status : {200}, body : {"bad"}]
    \cup [kind : {"net"}, status : {0}, body : {"bad"}]

\* the concurrent scenario draws from fewer replies
ApiReplies ==
    IF mode = "conc"
    THEN {r \in AllApiReplies : r.status \in {200, 401} /\ r.body = "json"}
    ELSE IF Resolving
    THEN {r \in AllApiReplies : r.status \in {200, 404, 503}}
    ELSE AllApiReplies

\* line 174
Transient == {429, 500, 502, 503, 504}

RECURSIVE Pow2(_)
Pow2(n) == IF n = 0 THEN 1 ELSE 2 * Pow2(n - 1)

ConstantBackoff(n) == BackoffBaseMs
\* lines 175 and 182: 0.2 * (2 ** attempt) seconds, in ms
Backoff(n) == BackoffBaseMs * Pow2(n)

\* one outcome of _do_post, as the history records it
Event(k, st, n, tok) == [kind |-> k, status |-> st, attempt |-> n, token |-> tok]

(***************************************************************************)
(* _ensure_consult_base, lines 125-135                                     *)
(***************************************************************************)
\* str.rstrip("/")
RECURSIVE RStripSlashes(_)
RStripSlashes(s) ==
    IF s # << >> /\ s[Len(s)] = "/" THEN RStripSlashes(SubSeq(s, 1, Len(s) - 1)) ELSE s

\* str.endswith
EndsWith(s, suffix) ==
    Len(s) >= Len(suffix) /\ SubSeq(s, Len(s) - Len(suffix) + 1, Len(s)) = suffix

ConsultSuffix == <<"/", "c", "o", "n", "s", "u", "l", "t">>

\* line 131, `if not b`: nothing is left of the base
BaseIsEmpty(base) == RStripSlashes(base) = << >>

\* the base that the function returns, << >> where it raises
\* LegifranceApiError
EnsureConsultBase(base) ==
    LET b == RStripSlashes(base) IN
    IF BaseIsEmpty(base) THEN << >>
    ELSE IF ~EndsWith(b, ConsultSuffix) THEN <<b \o ConsultSuffix>>
    ELSE <<b>>

(***************************************************************************)
(* A caller starts a bare _post_legifrance call                            *)
(***************************************************************************)
CallPost(p) ==
    /\ mode \in {"post", "conc"}
    /\ running = NoProc
    /\ pc[p] = "idle"
    /\ running' = p
    /\ pc' = [pc EXCEPT ![p] = "post_begin"]
    /\ UNCHANGED <<envVars, extVars, dispVars, clock, tokVars, lockVars, ret, result, ghostVars,
                   postVars, resVars>>

(***************************************************************************)
(* _post_legifrance lines 146-165: without a base the call raises at line   *)
(* 146; otherwise the locals are set and the first _do_post enters         *)
(* get_token                                                               *)
(***************************************************************************)
PostBegin(p) ==
    /\ running = p
    /\ pc[p] = "post_begin"
    /\ sent' = [sent EXCEPT ![p] = NoToken]
    /\ nreq' = [nreq EXCEPT ![p] = 0]
    /\ invals' = [invals EXCEPT ![p] = 0]
    /\ delays' = [delays EXCEPT ![p] = << >>]
    /\ hist' = [hist EXCEPT ![p] = << >>]
    /\ IF EnsureConsultBase(api_base) = << >>
       THEN \* line 132
            /\ result' = [result EXCEPT ![p] =
                    PostResult("ApiError", 0, "empty_base", None)]
            /\ pc' = [pc EXCEPT ![p] = "post_ret"]
            /\ UNCHANGED <<attempt, refreshed_after_401, last_exc, resp>>
       ELSE /\ pc' = [pc EXCEPT ![p] = "gt_check1"]
            /\ attempt' = [attempt EXCEPT ![p] = 0]
            /\ refreshed_after_401' = [refreshed_after_401 EXCEPT ![p] = FALSE]
            /\ last_exc' = [last_exc EXCEPT ![p] = None]
            /\ resp' = [resp EXCEPT ![p] = None]
            /\ UNCHANGED result
    /\ UNCHANGED <<envVars, extVars, dispVars, clock, running, tokVars, lockVars, ret,
                   ghostVars, resVars>>

(***************************************************************************)
(* _do_post lines 151-157: get_token returned a token; the request goes    *)
(* out with it as bearer                                                   *)
(***************************************************************************)
DoPostSend(p) ==
    /\ ~BareGetToken
    /\ running = p
    /\ pc[p] = "gt_ret"
    /\ ret[p].kind = "val"
    /\ sent' = [sent EXCEPT ![p] = ret[p].token]
    /\ nreq' = [nreq EXCEPT ![p] = @ + 1]
    /\ ret' = [ret EXCEPT ![p] = NoRet]
    /\ pc' = [pc EXCEPT ![p] = "api_wait"]
    /\ running' = NoProc
    /\ UNCHANGED <<resVars, envVars, extVars, dispVars, clock, tokVars, lockVars, result, ghostVars,
                   attempt, refreshed_after_401, last_exc, resp, invals, delays, hist>>

(***************************************************************************)
(* _do_post line 151 raised: a timeout or connection failure of the token  *)
(* request is caught at line 180 (last_exc, sleep); a LegifranceAuthError  *)
(* is not caught and leaves _post_legifrance                               *)
(***************************************************************************)
NothingCaught(kind) == FALSE
\* line 180: except (httpx.TimeoutException, httpx.NetworkError)
IsCaught(kind) == kind = "NetError"

DoPostTokenError(p) ==
    /\ ~BareGetToken
    /\ running = p
    /\ pc[p] = "gt_ret"
    /\ ret[p].kind # "val"
    /\ ret' = [ret EXCEPT ![p] = NoRet]
    /\ IF IsCaught(ret[p].kind)
       THEN /\ last_exc' = [last_exc EXCEPT ![p] = <<Event("toknet", 0, attempt[p], NoToken)>>]
            /\ hist' = [hist EXCEPT ![p] = Append(@, Event("toknet", 0, attempt[p], NoToken))]
            /\ delays' = [delays EXCEPT ![p] = Append(@, Backoff(attempt[p]))]
            /\ pc' = [pc EXCEPT ![p] = "sleep"]
            /\ running' = NoProc
            /\ UNCHANGED result
       ELSE /\ result' = [result EXCEPT ![p] = PostResult("AuthError", 0, "token", None)]
            /\ hist' = [hist EXCEPT ![p] = Append(@, Event("tokauth", 0, attempt[p], NoToken))]
            /\ pc' = [pc EXCEPT ![p] = "post_ret"]
            /\ UNCHANGED <<last_exc, delays, running>>
    /\ UNCHANGED <<resVars, envVars, extVars, dispVars, clock, tokVars, lockVars, ghostVars,
                   attempt, refreshed_after_401, resp, sent, nreq, invals>>

(***************************************************************************)
(* _invalidate_token_cache lines 116-122                                   *)
(***************************************************************************)
InvalidateTokenCache ==
    /\ access_token' = NoToken
    /\ token_expires_at' = None

RefreshOnEvery401(st, refreshed) == st = 401
\* line 168
Is401ToRefresh(st, refreshed) == st = 401 /\ ~refreshed

RetryEveryError(st) == st >= 400
\* line 174
IsTransient(st) == st \in Transient

(***************************************************************************)
(* lines 165-182: the reply to the API request arrives                     *)
(***************************************************************************)
ApiResponse(p, r) ==
    /\ running = NoProc
    /\ pc[p] = "api_wait"
    /\ sent' = [sent EXCEPT ![p] = NoToken]
    /\ IF r.kind = "net"
       THEN \* lines 180-182
            /\ last_exc' = [last_exc EXCEPT ![p] = <<Event("net", 0, attempt[p], sent[p])>>]
            /\ hist' = [hist EXCEPT ![p] = Append(@, Event("net", 0, attempt[p], sent[p]))]
            /\ delays' = [delays EXCEPT ![p] = Append(@, Backoff(attempt[p]))]
            /\ pc' = [pc EXCEPT ![p] = "sleep"]
            /\ UNCHANGED <<running, resp, refreshed_after_401, invals, tokVars, result>>
       ELSE /\ resp' = [resp EXCEPT ![p] = <<r>>]
            /\ hist' = [hist EXCEPT ![p] = Append(@, Event("resp", r.status, attempt[p], sent[p]))]
            /\ UNCHANGED last_exc
            /\ IF Is401ToRefresh(r.status, refreshed_after_401[p])
               THEN \* lines 168-171: invalidate, then _do_post again
                    /\ InvalidateTokenCache
                    /\ UNCHANGED cache_real_expiry
                    /\ refreshed_after_401' = [refreshed_after_401 EXCEPT ![p] = TRUE]
                    /\ invals' = [invals EXCEPT ![p] = @ + 1]
                    /\ pc' = [pc EXCEPT ![p] = "gt_check1"]
                    /\ running' = p
                    /\ UNCHANGED <<delays, result>>
               ELSE IF IsTransient(r.status)
               THEN \* lines 174-176
                    /\ delays' = [delays EXCEPT ![p] = Append(@, Backoff(attempt[p]))]
                    /\ pc' = [pc EXCEPT ![p] = "sleep"]
                    /\ UNCHANGED <<running, refreshed_after_401, invals, tokVars, result>>
               ELSE \* line 178: break
                    /\ pc' = [pc EXCEPT ![p] = "post_end"]
                    /\ running' = p
                    /\ UNCHANGED <<refreshed_after_401, invals, tokVars, delays, result>>
    /\ UNCHANGED <<resVars, envVars, extVars, dispVars, clock, lockVars, ret, ghostVars, attempt, nreq>>

(***************************************************************************)
(* lines 176/182 and 163: the sleep ends and the loop goes on, or, after   *)
(* the last attempt, the for-else of lines 184-185 raises; the loop        *)
(* variable then keeps the last value of range(3)                          *)
(***************************************************************************)
OneAttemptMore(n) == n <= MaxAttempts
\* line 163, `for attempt in range(3)`: attempt n is made
LoopGoesOn(n) == n < MaxAttempts

SleepDone(p) ==
    /\ running = NoProc
    /\ pc[p] = "sleep"
    /\ running' = p
    /\ IF LoopGoesOn(attempt[p] + 1)
       THEN /\ attempt' = [attempt EXCEPT ![p] = @ + 1]
            /\ pc' = [pc EXCEPT ![p] = "gt_check1"]
            /\ UNCHANGED result
       ELSE /\ result' = [result EXCEPT ![p] =
                    PostResult("ApiError", 0, "exhausted", last_exc[p])]
            /\ pc' = [pc EXCEPT ![p] = "post_ret"]
            /\ UNCHANGED attempt
    /\ UNCHANGED <<resVars, envVars, extVars, dispVars, clock, tokVars, lockVars, ret, ghostVars,
                   refreshed_after_401, last_exc, resp, sent, nreq, invals, delays, hist>>

(***************************************************************************)
(* lines 187-195, after the break: an error status raises                  *)
(* LegifranceApiError, anything else returns resp.json()                   *)
(***************************************************************************)
PostEnd(p) ==
    /\ running = p
    /\ pc[p] = "post_end"
    /\ result' = [result EXCEPT ![p] =
            IF resp[p] = None
            THEN PostResult("ApiError", 0, "no_response", None)
            ELSE IF resp[p][1].status >= 400
            THEN PostResult("ApiError", resp[p][1].status, "status", None)
            ELSE IF resp[p][1].body = "json"
            THEN PostResult("json", resp[p][1].status, "ok", None)
            ELSE PostResult("JSONDecodeError", resp[p][1].status, "body", None)]
    /\ pc' = [pc EXCEPT ![p] = "post_ret"]
    /\ UNCHANGED <<resVars, envVars, extVars, dispVars, clock, running, tokVars, lockVars, ret, ghostVars, postVars>>

(***************************************************************************)
(* _post_legifrance returns (or raises) to the caller of a bare call       *)
(***************************************************************************)
PostReturn(p) ==
    /\ mode \in {"post", "conc"}
    /\ running = p
    /\ pc[p] = "post_ret"
    /\ pc' = [pc EXCEPT ![p] = "done"]
    /\ running' = NoProc
    /\ UNCHANGED <<resVars, envVars, extVars, dispVars, clock, tokVars, lockVars, ret, result, ghostVars, postVars>>

InitPost == mode = "post" /\ InitCommon /\ NoInputs

(***************************************************************************)
(* Time passes while the loop is idle                                      *)
(***************************************************************************)
Tick ==
    /\ running = NoProc
    /\ clock < MaxClock
    /\ clock' = clock + TickSeconds
    /\ UNCHANGED <<resVars, postVars, envVars, extVars, dispVars, running, tokVars, lockVars, pc, ret, result, ghostVars>>

NextTok ==
    \/ \E p \in Procs : CallGetToken(p)
    \/ \E p \in Procs : GetTokenCheck(p)
    \/ \E p \in Procs : LockAcquire(p)
    \/ \E p \in Procs : LockGranted(p)
    \/ \E p \in Procs : GetTokenRecheck(p)
    \/ \E p \in Procs : FetchStart(p)
    \/ \E p \in Procs, r \in TokenReplies : TokenResponse(p, r)
    \/ \E p \in Procs : GetTokenReturn(p)
    \/ Tick

SpecTok == InitTok /\ [][NextTok]_vars

NextPost ==
    \/ \E p \in Procs : CallPost(p)
    \/ \E p \in Procs : PostBegin(p)
    \/ \E p \in Procs : GetTokenCheck(p)
    \/ \E p \in Procs : LockAcquire(p)
    \/ \E p \in Procs : GetTokenRecheck(p)
    \/ \E p \in Procs : FetchStart(p)
    \/ \E p \in Procs, r \in TokenReplies : TokenResponse(p, r)
    \/ \E p \in Procs : DoPostSend(p)
    \/ \E p \in Procs : DoPostTokenError(p)
    \/ \E p \in Procs, r \in ApiReplies : ApiResponse(p, r)
    \/ \E p \in Procs : SleepDone(p)
    \/ \E p \in Procs : PostEnd(p)
    \/ \E p \in Procs : PostReturn(p)

SpecPost == InitPost /\ [][NextPost]_vars

InitConc == mode = "conc" /\ InitCommon /\ NoInputs

NextConc ==
    \/ \E p \in Procs : CallPost(p)
    \/ \E p \in Procs : PostBegin(p)
    \/ \E p \in Procs : GetTokenCheck(p)
    \/ \E p \in Procs : LockAcquire(p)
    \/ \E p \in Procs : LockGranted(p)
    \/ \E p \in Procs : GetTokenRecheck(p)
    \/ \E p \in Procs : FetchStart(p)
    \/ \E p \in Procs, r \in TokenReplies : TokenResponse(p, r)
    \/ \E p \in Procs : DoPostSend(p)
    \/ \E p \in Procs : DoPostTokenError(p)
    \/ \E p \in Procs, r \in ApiReplies : ApiResponse(p, r)
    \/ \E p \in Procs : PostEnd(p)
    \/ \E p \in Procs : PostReturn(p)

SpecConc == InitConc /\ [][NextConc]_vars

(***************************************************************************)
(* The same calls under fair scheduling: concurrent get_token callers      *)
(* with time passing, or one transport call against every reply.           *)
(* Every step but the start of a call and the passing of time is a step    *)
(* the event loop or the network owes: a ready task runs, a request is     *)
(* answered or fails, a sleep ends.                                        *)
(***************************************************************************)
InitLive == (mode = "live" /\ InitCommon /\ NoInputs) \/ InitPost

Progress ==
    \/ \E p \in Procs : PostBegin(p)
    \/ \E p \in Procs : GetTokenCheck(p)
    \/ \E p \in Procs : LockAcquire(p)
    \/ \E p \in Procs : LockGranted(p)
    \/ \E p \in Procs : GetTokenRecheck(p)
    \/ \E p \in Procs : FetchStart(p)
    \/ \E p \in Procs, r \in TokenReplies : TokenResponse(p, r)
    \/ \E p \in Procs : GetTokenReturn(p)
    \/ \E p \in Procs : DoPostSend(p)
    \/ \E p \in Procs : DoPostTokenError(p)
    \/ \E p \in Procs, r \in ApiReplies : ApiResponse(p, r)
    \/ \E p \in Procs : SleepDone(p)
    \/ \E p \in Procs : PostEnd(p)
    \/ \E p \in Procs : PostReturn(p)

NextLive ==
    \/ \E p \in Procs : CallGetToken(p)
    \/ \E p \in Procs : CallPost(p)
    \/ Progress
    \/ (mode = "live" /\ Tick)

SpecLive == InitLive /\ [][NextLive]_vars /\ WF_vars(Progress)

(***************************************************************************)
(* resolver.py: the queries of resolve_code_article                        *)
(***************************************************************************)
\* one entry of "champs": typeChamp and the valeur of its EXACTE criterion
Champ(type, valeur) == [typeChamp |-> type, typeRecherche |-> "EXACTE", valeur |-> valeur]

\* line 61: {"facette": "DATE_VERSION", "singleDate": millis}
DateFilter(millis) == [facette |-> "DATE_VERSION", singleDate |-> <<millis>>, valeur |-> << >>]
\* lines 62 and 141: {"facette": "TEXT_LEGAL_STATUS", "valeur": "VIGUEUR"}
StatusFilter == [facette |-> "TEXT_LEGAL_STATUS", singleDate |-> << >>, valeur |-> <<"VIGUEUR">>]

\* line 60, `if millis:`: None and 0 add no filter
MillisTruthy(m) == m.kind = "val" /\ m.millis # NoMillis

SearchQuery(champs, filtres, size) ==
    [fond |-> "CODE_ETAT", champs |-> champs, filtres |-> filtres,
     pageNumber |-> 1, pageSize |-> size]

\* resolver.py lines 52-88.  [kind |-> "ValueError"] when the date does not
\* parse, else [kind |-> "val"] with the query.
search_payload_code_article(code, article, date_version) ==
    LET millis == IF Falsy(date_version)
                  THEN [kind |-> "none", millis |-> NoMillis]
                  ELSE iso_date_to_millis(date_version)
        champs == <<Champ("TEXT_NOM_CODE", code), Champ("NUM_ARTICLE", article)>>
    IN IF millis.kind = "ValueError"
       THEN [kind |-> "ValueError", payload |-> SearchQuery(<< >>, << >>, 0)]
       ELSE [kind |-> "val",
             payload |-> SearchQuery(champs,
                             (IF MillisTruthy(millis)
                              THEN <<DateFilter(millis.millis)>> ELSE << >>)
                             \o <<StatusFilter>>,
                             SearchPageSize)]

PageOfTen(code) ==
    SearchQuery(<<Champ("TEXT_NOM_CODE", code)>>, <<StatusFilter>>, SearchPageSize)
\* resolver.py lines 129-147
fallback_payload_code_only(code) ==
    SearchQuery(<<Champ("TEXT_NOM_CODE", code)>>, <<StatusFilter>>, FallbackPageSize)

\* legifrance.py lines 202-215: one _post_legifrance call of the
\* resolution, lf_search(payload) or lf_get_article(legiarti_id)
SearchCall(payload) == [endpoint |-> "search", search |-> <<payload>>, id |-> NoStr]
GetArticleCall(legiarti_id) == [endpoint |-> "getArticle", search |-> << >>, id |-> <<legiarti_id>>]

AllOf(s, n) == s
\* ids[:n]
FirstN(s, n) == SubSeq(s, 1, IF Len(s) < n THEN Len(s) ELSE n)

\* line 200: `not ids`
NoIds(xs) == xs = << >>

NeverTooMany(xs) == FALSE
MoreThanOne(xs) == Len(xs) > 1
\* line 206: len(ids) > 3
TooMany(xs) == Len(xs) > AmbiguousAbove

OnlyNone(s) == s = NoStr
\* line 187: `not code_title`, `not article_num`
Missing(s) == Falsy(s)

(***************************************************************************)
(* The inputs and the API's JSON bodies of the resolution scenario         *)
(***************************************************************************)
HintChars == {" ", "\t", "-", "L", "1"}

RECURSIVE Strs(_)
Strs(n) ==
    IF n = 0 THEN {<< >>}
    ELSE LET shorter == Strs(n - 1) IN
         shorter \cup {Append(s, c) : s \in {t \in shorter : Len(t) = n - 1}, c \in HintChars}

\* hints with the spaces and digits that are not ASCII
WideHints ==
    {<<<<"L", VT, "1">>>>,
     <<<<NBSP, "L", " ", "U+0663", US, "-", "U+2003", "1", NEL>>>>,
     <<<<NBSP, "U+3000">>>>}

\* a hint is absent (None) or a string
Hints == {NoStr} \cup {<<s>> : s \in Strs(MaxHintLen)} \cup WideHints
BlankHints == {h \in Hints : h = NoStr \/ \A i \in 1..Len(h[1]) : IsSpace(h[1][i])}

TypicalCode == <<<<"C", "o", "d", "e", " ", " ", "c", "i", "v", "i", "l", " ">>>>
TypicalArticle == <<<<"L", " ", "1", "2", " ", "-", "1">>>>
TypicalDate == <<<<"2", "0", "2", "0", "-", "0", "1", "-", "0", "1">>>>

DateHints ==
    {NoStr, <<<< >>>>, <<<<" ">>>>, TypicalDate,
     <<<<"2", "0", "2", "0", "/", "0", "1", "/", "0", "1">>>>,
     <<<<" ", "2", "0", "2", "0", "-", "1", "-", "1", "\n">>>>,
     <<<<"1", "9", "7", "0", "-", "0", "1", "-", "0", "1">>>>,
     <<<<"1", "9", "7", "0", "-", "0", "1", "-", "0", "2">>>>,
     <<<<"2", "0", "2", "1", "-", "0", "2", "-", "2", "9">>>>,
     <<<<"0", "1", "/", "0", "1", "/", "2", "0", "2", "0">>>>,
     <<<<VT, "U+FF12", "0", "2", "U+0660", "/", "0", "1", "/", "1", "U+0663",
         "U+2003">>>>,
     <<<<"2", "0", "2", "0", "-", "0", "U+0661", "-", "0", "1">>>>}

\* the calls of the scenario: the three hints vary one at a time, and a
\* blank code or article hint meets every other hint
ResolveInputs ==
    {<<c, a, d>> \in Hints \X Hints \X DateHints : c \in BlankHints \/ a \in BlankHints}
    \cup {<<c, TypicalArticle, TypicalDate>> : c \in Hints}
    \cup {<<TypicalCode, a, TypicalDate>> : a \in Hints}
    \cup {<<TypicalCode, TypicalArticle, d>> : d \in DateHints}
    \cup {<<TypicalCode, b, d>> : b \in BlankHints, d \in DateHints}
    \cup {<<b, TypicalArticle, d>> : b \in BlankHints, d \in DateHints}

\* the decimal digits of n > 0
RECURSIVE Digits(_)
Digits(n) == IF n < 10 THEN <<DigitChars[n + 1]>>
             ELSE Append(Digits(n \div 10), DigitChars[(n % 10) + 1])

IdOf(n) == LEGIARTI \o Digits(n)
LEGITEXT1 == <<"L", "E", "G", "I", "T", "E", "X", "T", "1">>

\* ids met in responses: two article ids and one id of another kind
IdPool == {IdOf(1), IdOf(2), LEGITEXT1}
IdEntries == {JDict("id" :> JStr(x)) : x \in IdPool}
\* entries of an "articles" list
EntryShapes == {JNull, JStr(IdOf(1)), JDict(NoKeys), JDict("id" :> JNum(7))} \cup IdEntries
ArticlesShapes ==
    {JNull, JStr(IdOf(1)), JNum(7), JList(<< >>), JDict("id" :> JStr(IdOf(1)))}
    \cup {JList(<<e>>) : e \in EntryShapes}
    \cup {JList(<<e, f>>) : e \in IdEntries, f \in IdEntries}
\* items of a "results" list
ItemShapes ==
    {JNull, JStr(IdOf(1)), JDict(NoKeys)} \cup IdEntries
    \cup {JDict("id" :> JNum(7))}
    \cup {JDict("articles" :> a) : a \in ArticlesShapes}
    \cup {JDict(("articles" :> a) @@ ("id" :> JStr(x))) : a \in ArticlesShapes, x \in IdPool}
PlainItems == IdEntries \cup {JDict("articles" :> JList(<<e>>)) : e \in IdEntries}

\* a response with the n ids IdOf(1) .. IdOf(n), one per result
ManyIds(n) == JDict("results" :> JList([i \in 1..n |-> JDict("id" :> JStr(IdOf(i)))]))

\* a response with n results; result i lists the ids IdOf(i + 1) and IdOf(i)
\* under "articles" and carries IdOf(i) itself
Nested(n) ==
    JDict("results" :> JList([i \in 1..n |->
        JDict(("articles" :> JList(<<JDict("id" :> JStr(IdOf(i + 1))),
                                     JDict("id" :> JStr(IdOf(i)))>>))
              @@ ("id" :> JStr(IdOf(i))))]))

\* bodies of a 200 reply to a search: any JSON value
SearchResponses ==
    {JNull, JList(<< >>), JStr(IdOf(1)), JDict(NoKeys), JDict("total" :> JNum(0))}
    \cup {JDict("results" :> x) : x \in {JNull, JStr(IdOf(1)), JNum(7), JDict(NoKeys),
                                         JDict("id" :> JStr(IdOf(1))), JList(<< >>)}}
    \cup {JDict("results" :> JList(<<i>>)) : i \in ItemShapes}
    \cup {JDict("results" :> JList(<<i, j>>)) : i \in PlainItems, j \in PlainItems}
    \cup {ManyIds(n) : n \in 3..MaxIds}
    \cup {Nested(n) : n \in 1..MaxIds}

TitleA == <<"C", "o", "d", "e">>
TitleB == <<"L", "o", "n", "g">>
TitleLists ==
    {JNull, JList(<< >>), JStr(TitleA), JList(<<JStr(TitleA)>>),
     JList(<<JDict(NoKeys)>>), JList(<<JDict("title" :> JStr(TitleA))>>),
     JList(<<JDict("titreLong" :> JStr(TitleB))>>),
     JList(<<JDict(("title" :> JStr(<< >>)) @@ ("titreLong" :> JStr(TitleB)))>>),
     JList(<<JDict(("title" :> JStr(TitleA)) @@ ("titreLong" :> JStr(TitleB)))>>)}
ArticleLike ==
    {JDict(NoKeys)} \cup {JDict("textTitles" :> t) : t \in TitleLists}
    \cup {JDict("titles" :> t) : t \in TitleLists}
    \cup {JDict(("textTitles" :> JList(<< >>)) @@ ("titles" :> t)) : t \in TitleLists}

\* bodies of a 200 reply to getArticle
ArticleResponses ==
    {JNull, JList(<< >>)} \cup ArticleLike
    \cup {JDict("article" :> a) : a \in ArticleLike \cup {JNull, JStr(TitleA)}}

(***************************************************************************)
(* resolve_code_article lines 174-196: normalization, the TooBroad test,   *)
(* the primary query, and the start of the primary search                  *)
(***************************************************************************)
ResolveBegin(p, h) ==
    LET ct == normalize_code_title(h[1])
        an == normalize_article_num(h[2])
    IN /\ hints' = [hints EXCEPT ![p] = h]
       /\ code_title' = [code_title EXCEPT ![p] = ct]
       /\ article_num' = [article_num EXCEPT ![p] = an]
       /\ IF Missing(ct) \/ Missing(an)
          THEN \* line 188
               /\ outcome' = [outcome EXCEPT ![p] = Raise("TooBroad", NoError)]
               /\ pc' = [pc EXCEPT ![p] = "done"]
               /\ UNCHANGED <<stage, calls, running>>
          ELSE LET q == search_payload_code_article(ct[1], an[1], h[3]) IN
               IF q.kind = "ValueError"
               THEN \* line 190: strptime raised
                    /\ outcome' = [outcome EXCEPT ![p] = Raise("ValueError", NoError)]
                    /\ pc' = [pc EXCEPT ![p] = "done"]
                    /\ UNCHANGED <<stage, calls, running>>
               ELSE \* line 193
                    /\ stage' = [stage EXCEPT ![p] = "primary"]
                    /\ calls' = [calls EXCEPT ![p] = Append(@, SearchCall(q.payload))]
                    /\ pc' = [pc EXCEPT ![p] = "post_begin"]
                    /\ running' = p
                    /\ UNCHANGED outcome

(***************************************************************************)
(* A caller starts a bare resolve_code_article call                        *)
(***************************************************************************)
CallResolve(p) ==
    /\ mode = "res"
    /\ running = NoProc
    /\ pc[p] = "idle"
    /\ \E h \in ResolveInputs : ResolveBegin(p, h)
    /\ UNCHANGED <<envVars, extVars, dispVars, clock, tokVars, lockVars, ret, result, ghostVars,
                   postVars, ids, body_no_id, body_ids>>

(***************************************************************************)
(* lines 192-196: lf_search raised.  The primary search's exception is     *)
(* caught and the fallback search starts; the fallback's propagates.       *)
(***************************************************************************)
SearchFailed(p) ==
    /\ Resolving
    /\ running = p
    /\ pc[p] = "post_ret"
    /\ stage[p] \in {"primary", "fallback"}
    /\ result[p].kind # "json"
    /\ IF stage[p] = "primary"
       THEN /\ stage' = [stage EXCEPT ![p] = "fallback"]
            /\ calls' = [calls EXCEPT ![p] =
                   Append(@, SearchCall(fallback_payload_code_only(code_title[p][1])))]
            /\ pc' = [pc EXCEPT ![p] = "post_begin"]
            /\ UNCHANGED <<outcome, running>>
       ELSE /\ outcome' = [outcome EXCEPT ![p] = Raise(result[p].kind, result[p])]
            /\ pc' = [pc EXCEPT ![p] = "done"]
            /\ running' = NoProc
            /\ UNCHANGED <<stage, calls>>
    /\ UNCHANGED <<envVars, extVars, dispVars, clock, tokVars, lockVars, ret, result, ghostVars,
                   postVars, hints, code_title, article_num, ids, body_no_id, body_ids>>

(***************************************************************************)
(* lines 193/196 and 198-213: lf_search returned the body r; the ids are   *)
(* extracted, and the call ends NotFound or Ambiguous or goes on to fetch  *)
(* the first id                                                            *)
(***************************************************************************)
SearchReturned(p, r) ==
    /\ Resolving
    /\ running = p
    /\ pc[p] = "post_ret"
    /\ stage[p] \in {"primary", "fallback"}
    /\ result[p].kind = "json"
    /\ body_no_id' = [body_no_id EXCEPT ![p] = YieldsNoId(r)]
    /\ body_ids' = [body_ids EXCEPT ![p] = FirstSeenIds(r)]
    /\ LET ex == extract_legiarti_id_from_search(r) IN
       IF ex.kind = "AttributeError"
       THEN /\ outcome' = [outcome EXCEPT ![p] = Raise("AttributeError", NoError)]
            /\ pc' = [pc EXCEPT ![p] = "done"]
            /\ running' = NoProc
            /\ UNCHANGED <<stage, calls, ids>>
       ELSE /\ ids' = [ids EXCEPT ![p] = ex.ids]
            /\ IF NoIds(ex.ids)
               THEN \* lines 200-203
                    /\ outcome' = [outcome EXCEPT ![p] = Raise("NotFound", NoError)]
                    /\ pc' = [pc EXCEPT ![p] = "done"]
                    /\ running' = NoProc
                    /\ UNCHANGED <<stage, calls>>
               ELSE IF TooMany(ex.ids)
               THEN \* lines 206-210
                    /\ outcome' = [outcome EXCEPT ![p] =
                           Outcome("Ambiguous", NoStr, JNull, NoStr, NoStr,
                                   FirstN(ex.ids, MaxCandidates), JNull, NoError)]
                    /\ pc' = [pc EXCEPT ![p] = "done"]
                    /\ running' = NoProc
                    /\ UNCHANGED <<stage, calls>>
               ELSE \* lines 212-213
                    /\ stage' = [stage EXCEPT ![p] = "fetch"]
                    /\ calls' = [calls EXCEPT ![p] = Append(@, GetArticleCall(ex.ids[1]))]
                    /\ pc' = [pc EXCEPT ![p] = "post_begin"]
                    /\ UNCHANGED <<outcome, running>>
    /\ UNCHANGED <<envVars, extVars, dispVars, clock, tokVars, lockVars, ret, result, ghostVars,
                   postVars, hints, code_title, article_num>>

(***************************************************************************)
(* line 213: lf_get_article raised; nothing catches it                     *)
(***************************************************************************)
FetchFailed(p) ==
    /\ Resolving
    /\ running = p
    /\ pc[p] = "post_ret"
    /\ stage[p] = "fetch"
    /\ result[p].kind # "json"
    /\ outcome' = [outcome EXCEPT ![p] = Raise(result[p].kind, result[p])]
    /\ pc' = [pc EXCEPT ![p] = "done"]
    /\ running' = NoProc
    /\ UNCHANGED <<envVars, extVars, dispVars, clock, tokVars, lockVars, ret, result, ghostVars,
                   postVars, hints, stage, code_title, article_num, ids, calls,
                   body_no_id, body_ids>>

(***************************************************************************)
(* lines 213-224: lf_get_article returned the body a                       *)
(***************************************************************************)
FetchReturned(p, a) ==
    /\ Resolving
    /\ running = p
    /\ pc[p] = "post_ret"
    /\ stage[p] = "fetch"
    /\ result[p].kind = "json"
    /\ outcome' = [outcome EXCEPT ![p] =
           Outcome("Resolved", <<ids[p][1]>>, extract_title_from_article_resp(a),
                   article_num[p], hints[p][3], << >>, a, NoError)]
    /\ pc' = [pc EXCEPT ![p] = "done"]
    /\ running' = NoProc
    /\ UNCHANGED <<envVars, extVars, dispVars, clock, tokVars, lockVars, ret, result, ghostVars,
                   postVars, hints, stage, code_title, article_num, ids, calls,
                   body_no_id, body_ids>>

InitRes == mode = "res" /\ InitCommon /\ NoInputs

NextRes ==
    \/ \E p \in Procs : CallResolve(p)
    \/ \E p \in Procs : PostBegin(p)
    \/ \E p \in Procs : GetTokenCheck(p)
    \/ \E p \in Procs : LockAcquire(p)
    \/ \E p \in Procs : GetTokenRecheck(p)
    \/ \E p \in Procs : FetchStart(p)
    \/ \E p \in Procs, r \in TokenReplies : TokenResponse(p, r)
    \/ \E p \in Procs : DoPostSend(p)
    \/ \E p \in Procs : DoPostTokenError(p)
    \/ \E p \in Procs, r \in ApiReplies : ApiResponse(p, r)
    \/ \E p \in Procs : SleepDone(p)
    \/ \E p \in Procs : PostEnd(p)
    \/ \E p \in Procs, r \in SearchResponses : SearchReturned(p, r)
    \/ \E p \in Procs : SearchFailed(p)
    \/ \E p \in Procs, a \in ArticleResponses : FetchReturned(p, a)
    \/ \E p \in Procs : FetchFailed(p)

SpecRes == InitRes /\ [][NextRes]_vars

(***************************************************************************)
(* dispatch_from_make_json (resolver.py lines 231-292): the payload is a   *)
(* JSON object; the answer is a dict, unless an exception escapes          *)
(***************************************************************************)
NOT_LEGAL == <<"N", "O", "T", "_", "L", "E", "G", "A", "L">>
TOO_VAGUE == <<"T", "O", "O", "_", "V", "A", "G", "U", "E">>
WRONG_ROUTE == <<"W", "R", "O", "N", "G", "_", "R", "O", "U", "T", "E">>
NOT_IMPLEMENTED ==
    <<"N", "O", "T", "_", "I", "M", "P", "L", "E", "M", "E", "N", "T", "E", "D">>
RESOLVE == <<"R", "E", "S", "O", "L", "V", "E">>
LEGAL == <<"L", "E", "G", "A", "L">>
SEARCH == <<"S", "E", "A", "R", "C", "H">>
ARTICLE == <<"a", "r", "t", "i", "c", "l", "e">>
CODE == <<"C", "O", "D", "E">>

NOT_LEGAL_MESSAGE ==
    <<"Q", "u", "e", "s", "t", "i", "o", "n", " ", "n", "o", "n", " ", "j",
      "u", "r", "i", "d", "i", "q", "u", "e", ".">>
TOO_VAGUE_MESSAGE ==
    <<"Q", "u", "e", "s", "t", "i", "o", "n", " ", "t", "r", "o", "p", " ",
      "v", "a", "g", "u", "e", ".", " ", "P", "r", "é", "c", "i", "s", "e",
      " ", "l", "e", "s", " ", "é", "l", "é", "m", "e", "n", "t", "s", " ",
      "m", "a", "n", "q", "u", "a", "n", "t", "s", ".">>
WRONG_ROUTE_MESSAGE ==
    <<"C", "e", " ", "d", "i", "s", "p", "a", "t", "c", "h", "e", "r", " ",
      "R", "E", "S", "O", "L", "V", "E", " ", "a", " ", "r", "e", "ç", "u",
      " ", "u", "n", "e", " ", "r", "e", "q", "u", "ê", "t", "e", " ", "n",
      "o", "n", " ", "R", "E", "S", "O", "L", "V", "E", ".">>
NOT_IMPLEMENTED_MESSAGE ==
    <<"R", "E", "S", "O", "L", "V", "E", " ", "n", "o", "n", " ", "i", "m",
      "p", "l", "é", "m", "e", "n", "t", "é", " ", "p", "o", "u", "r", " ",
      "c", "e", " ", "t", "y", "p", "e", " ", "d", "e", " ", "d", "e", "m",
      "a", "n", "d", "e", " ", "(", "b", "e", "s", "o", "i", "n", " ", "c",
      "o", "d", "e", "+", "a", "r", "t", "i", "c", "l", "e", " ", "o", "u",
      " ", "a", "u", "t", "r", "e", " ", "s", "c", "é", "n", "a", "r", "i",
      "o", ")", ".">>
\* x == "literal"
StrIs(x, s) == x.t = "str" /\ x.v = s

\* line 248
IsNotLegal(payload) == StrIs(Get(payload, "intent"), NOT_LEGAL)
\* line 251
IsTooVague(payload) == StrIs(Get(payload, "intent"), TOO_VAGUE)
\* line 259: route_target != "RESOLVE"
WrongRoute(payload) == ~StrIs(Get(payload, "route_target"), RESOLVE)

EitherHint(payload) ==
    Truthy(Get(payload, "code_hint")) \/ Truthy(Get(payload, "article_hint"))
\* line 270: `if code_hint and article_hint`
BothHints(payload) ==
    Truthy(Get(payload, "code_hint")) /\ Truthy(Get(payload, "article_hint"))

\* a payload value handed to resolve_code_article: None or a string
AsHint(x) == IF x.t = "null" THEN NoStr ELSE <<x.v>>
\* an Optional[str] field of ResolvedArticle put into the answer
AsJson(s) == IF s = NoStr THEN JNull ELSE JStr(s[1])

\* the dispatcher returned the dict body
Returned(body) == [kind |-> "returned", body |-> JDict(body)]
\* the exception of that kind left the dispatcher
Escaped(kind) == [kind |-> kind, body |-> JNull]

\* lines 249, 260-264, 288-292
Failure(code, message) ==
    ("ok" :> JBool(FALSE)) @@ ("error" :> JStr(code)) @@ ("message" :> JStr(message))
\* lines 252-257
TooVagueFailure(payload) ==
    Failure(TOO_VAGUE, TOO_VAGUE_MESSAGE)
    @@ ("missing_info" :> Or(Get(payload, "missing_info"), JList(<< >>)))
\* lines 276-285
OkArticle(resolved) ==
    ("ok" :> JBool(TRUE)) @@ ("kind" :> JStr(ARTICLE)) @@ ("source" :> JStr(CODE))
    @@ ("legiarti_id" :> AsJson(resolved.legiarti_id))
    @@ ("title" :> resolved.title)
    @@ ("article" :> AsJson(resolved.article_num))
    @@ ("date_version" :> AsJson(resolved.date_version))
    @@ ("raw" :> resolved.raw)

\* the payloads of the scenario: every key may be missing
Opt(k, values) == {NoKeys} \cup {k :> x : x \in values}
CodeHintValues == {JNull, JStr(<< >>), JStr(<<" ">>), JStr(TypicalCode[1])}
ArticleHintValues == {JNull, JStr(<< >>), JStr(<<" ">>), JStr(TypicalArticle[1])}
MissingInfoValues == {JNull, JList(<< >>), JList(<<JStr(<<"d", "a", "t", "e">>)>>)}
DispatchInputs ==
    {JDict(i @@ r @@ c @@ a @@ d @@ mi) :
        i \in Opt("intent", {JStr(NOT_LEGAL), JStr(TOO_VAGUE), JStr(LEGAL)}),
        r \in Opt("route_target", {JStr(RESOLVE), JStr(SEARCH)}),
        c \in Opt("code_hint", CodeHintValues),
        a \in Opt("article_hint", ArticleHintValues),
        d \in Opt("date_hint", {JStr(TypicalDate[1])}),
        mi \in Opt("missing_info", MissingInfoValues)}

\* the API's bodies in the dispatcher scenario: no id, one id, four ids
DispatchSearchResponses == {JDict(NoKeys), ManyIds(3), ManyIds(AmbiguousAbove + 1)}
DispatchArticleResponses ==
    {JDict(NoKeys),
     JDict("article" :> JDict("textTitles" :> JList(<<JDict("title" :> JStr(TitleA))>>)))}

(***************************************************************************)
(* lines 245-292 up to the await of line 271                               *)
(***************************************************************************)
CallDispatch(p) ==
    /\ mode = "disp"
    /\ running = NoProc
    /\ pc[p] = "idle"
    /\ LET payload == request[p]
           answer(body) ==
               /\ response' = [response EXCEPT ![p] = Returned(body)]
               /\ pc' = [pc EXCEPT ![p] = "returned"]
               /\ UNCHANGED <<hints, stage, code_title, article_num, outcome, calls,
                              running>>
       IN IF IsNotLegal(payload)
          THEN answer(Failure(NOT_LEGAL, NOT_LEGAL_MESSAGE))
          ELSE IF IsTooVague(payload)
          THEN answer(TooVagueFailure(payload))
          ELSE IF WrongRoute(payload)
          THEN answer(Failure(WRONG_ROUTE, WRONG_ROUTE_MESSAGE))
          ELSE IF BothHints(payload)
          THEN /\ ResolveBegin(p, <<AsHint(Get(payload, "code_hint")),
                                    AsHint(Get(payload, "article_hint")),
                                    AsHint(Get(payload, "date_hint"))>>)
               /\ UNCHANGED response
          ELSE answer(Failure(NOT_IMPLEMENTED, NOT_IMPLEMENTED_MESSAGE))
    /\ UNCHANGED <<envVars, extVars, request, clock, tokVars, lockVars, ret, result,
                   ghostVars, postVars, ids, body_no_id, body_ids>>

(***************************************************************************)
(* lines 271-285: resolve_code_article is over.  A ResolvedArticle is put  *)
(* into the answer; an exception meets no handler and leaves the function. *)
(***************************************************************************)
DispatchEnd(p) ==
    /\ mode = "disp"
    /\ running = NoProc
    /\ pc[p] = "done"
    /\ response' = [response EXCEPT ![p] =
           IF outcome[p].kind = "Resolved"
           THEN Returned(OkArticle(outcome[p]))
           ELSE Escaped(outcome[p].kind)]
    /\ pc' = [pc EXCEPT ![p] = "returned"]
    /\ UNCHANGED <<envVars, extVars, request, clock, running, tokVars, lockVars, ret,
                   result, ghostVars, postVars, resVars>>

InitDisp ==
    /\ mode = "disp"
    /\ InitCommon
    /\ ext_body = JNull
    /\ request \in [Procs -> DispatchInputs]

NextDisp ==
    \/ \E p \in Procs : CallDispatch(p)
    \/ \E p \in Procs : PostBegin(p)
    \/ \E p \in Procs : GetTokenCheck(p)
    \/ \E p \in Procs : LockAcquire(p)
    \/ \E p \in Procs : GetTokenRecheck(p)
    \/ \E p \in Procs : FetchStart(p)
    \/ \E p \in Procs, r \in TokenReplies : TokenResponse(p, r)
    \/ \E p \in Procs : DoPostSend(p)
    \/ \E p \in Procs : DoPostTokenError(p)
    \/ \E p \in Procs, r \in ApiReplies : ApiResponse(p, r)
    \/ \E p \in Procs : SleepDone(p)
    \/ \E p \in Procs : PostEnd(p)
    \/ \E p \in Procs, r \in DispatchSearchResponses : SearchReturned(p, r)
    \/ \E p \in Procs : SearchFailed(p)
    \/ \E p \in Procs, a \in DispatchArticleResponses : FetchReturned(p, a)
    \/ \E p \in Procs : FetchFailed(p)
    \/ \E p \in Procs : DispatchEnd(p)

SpecDisp == InitDisp /\ [][NextDisp]_vars

(***************************************************************************)
(* _extract_legiarti_id_from_search on its own: the body is drawn at the   *)
(* start and the function runs over it again and again                     *)
(***************************************************************************)
ExtractInputs ==
    SearchResponses
    \cup {JDict("results" :> JList(<<i, j>>)) : i \in ItemShapes, j \in ItemShapes}
    \cup {JDict("results" :> JList(<<i, j, k>>)) :
              i \in PlainItems, j \in PlainItems, k \in PlainItems}

InitExtract ==
    /\ mode = "ext"
    /\ InitCommon
    /\ ext_body \in ExtractInputs
    /\ request = [p \in Procs |-> NoRequest]

\* resolver.py lines 91-126: one run; the body is only read
RunExtract ==
    /\ mode = "ext"
    /\ Len(runs) < MaxRuns
    /\ runs' = Append(runs, extract_legiarti_id_from_search(ext_body))
    /\ UNCHANGED <<envVars, ext_body, dispVars, clock, running, tokVars, lockVars,
                   pc, ret, result, ghostVars, postVars, resVars>>

NextExtract == RunExtract

SpecExtract == InitExtract /\ [][NextExtract]_vars

(***************************************************************************)
(* Claims                                                                  *)
(***************************************************************************)
AllDone == \A p \in Procs : pc[p] = "done"
AllCalledEmpty == \A p \in Procs : called_empty[p]

\* C1 (as stated): N concurrent get_token callers that all call while the
\* cache is empty cause exactly one request to the token endpoint.
C1_ExactlyOneTokenRequest ==
    (mode = "tok" /\ HasCredentials /\ AllDone /\ AllCalledEmpty) => tokReqs = 1

\* C1 (amended): when the callers all call while the cache is empty, the
\* first token request succeeds and the token it installed has not reached
\* its cached expiry, exactly one token request has been issued; whatever
\* the replies, N callers issue at most N requests.
C1_OneRequestWhenFirstFetchStaysValid ==
    /\ (mode = "tok" /\ AllDone /\ AllCalledEmpty
            /\ first_fetch.kind = "ok"
            /\ clock < first_fetch.expires_at[1])
        => tokReqs = 1
    /\ (mode = "tok" /\ AllDone) => tokReqs <= Cardinality(Procs)

C1_Witness ==
    /\ mode = "tok" /\ AllDone /\ AllCalledEmpty
    /\ first_fetch.kind = "ok"
    /\ clock < first_fetch.expires_at[1]
    /\ tokReqs = 1
    /\ Cardinality({p \in Procs : result[p].src = "cache"}) = Cardinality(Procs) - 1

\* C3 (as stated): every token get_token returns, cached or freshly
\* fetched, has at least the 60 s safety margin left before its real expiry.
C3_EveryReturnedTokenHasMargin ==
    \A p \in Procs :
        (pc[p] = "gt_ret" /\ ret[p].kind = "val")
            => cache_real_expiry - clock >= SafetyMargin

\* C3 (amended): every token get_token serves from the cache has at least
\* the 60 s safety margin left before its expiry (reply time + expires_in)
\* at the moment it is returned.
C3_CachedTokenHasMargin ==
    \A p \in Procs :
        (pc[p] = "gt_ret" /\ ret[p].kind = "val" /\ ret[p].src = "cache")
            => cache_real_expiry - clock >= SafetyMargin

C3_Witness ==
    \E p \in Procs :
        /\ pc[p] = "gt_ret" /\ ret[p].kind = "val" /\ ret[p].src = "cache"
        /\ clock > 0
        /\ cache_real_expiry - clock < DefaultExpiresIn - SafetyMargin


\* C2: at most one token request (_fetch_new_token) is in flight at a time,
\* whatever the interleaving of concurrent transport calls and of the
\* invalidations their 401 replies cause.
C2_AtMostOneRefreshInFlight ==
    Cardinality({p \in Procs : pc[p] = "fetch_wait"}) <= 1

C2_Witness ==
    \E p, q \in Procs :
        /\ pc[p] = "fetch_wait" /\ lock_holder = p
        /\ pc[q] = "gt_wait" /\ invals[q] = 1
        /\ invals[p] = 1

(***************************************************************************)
(* One _post_legifrance call, read off its history                         *)
(***************************************************************************)
Statuses(h) == [i \in 1..Len(h) |-> h[i].status]
Is401(e) == e.kind = "resp" /\ e.status = 401
\* a failure the loop retries: a transient status or a network failure
IsRetried(e) == e.kind \in {"net", "toknet"} \/ (e.kind = "resp" /\ e.status \in Transient)
First401(h, i) == Is401(h[i]) /\ \A j \in 1..(i - 1) : ~Is401(h[j])
\* an error status that is neither a first 401 nor transient
IsFatal(h, i) ==
    /\ h[i].kind = "resp" /\ h[i].status >= 400
    /\ ~First401(h, i) /\ h[i].status \notin Transient
Ended(p) == pc[p] \in {"post_ret", "done"}

\* C4: one call invalidates the token cache at most once; a 401 followed by
\* a 200 makes one invalidation and one retried request carrying a newly
\* acquired token; a second 401 ends the call with a remote-API error.
C4_OneInvalidationPerCall ==
    \A p \in Procs :
        /\ invals[p] <= 1
        /\ (Ended(p) /\ Statuses(hist[p]) = <<401, 200>>)
            => /\ invals[p] = 1
               /\ nreq[p] = 2
               /\ hist[p][2].token # hist[p][1].token
               /\ hist[p][2].token # NoToken
        /\ \A i \in 1..Len(hist[p]) :
              (Is401(hist[p][i]) /\ ~First401(hist[p], i))
              => /\ i = Len(hist[p])
                 /\ pc[p] \in {"post_end", "post_ret", "done"}
                 /\ Ended(p) => result[p] = PostResult("ApiError", 401, "status", None)

C4_Witness ==
    \E p \in Procs :
        /\ pc[p] = "done" /\ Statuses(hist[p]) = <<401, 200>>
        /\ invals[p] = 1 /\ nreq[p] = 2

\* C5: transient statuses and network failures share one budget of 3
\* attempts, each failed attempt n being followed by a wait of 200ms * 2^n;
\* the replies [503, 503, 200] succeed on the third attempt after waits of
\* 200 ms and 400 ms.
C5_SharedRetryBudget ==
    \A p \in Procs :
        /\ attempt[p] < MaxAttempts
        /\ Len(hist[p]) - invals[p] <= MaxAttempts
        /\ \A i \in 1..Len(hist[p]) : hist[p][i].attempt < MaxAttempts
        /\ Len(delays[p]) <= MaxAttempts
        /\ \A i \in 1..Len(delays[p]) : delays[p][i] = BackoffBaseMs * Pow2(i - 1)
        /\ Len(delays[p]) = Cardinality({i \in 1..Len(hist[p]) : IsRetried(hist[p][i])})
        /\ \A i \in 1..Len(hist[p]) :
              (IsRetried(hist[p][i]) /\ hist[p][i].attempt < MaxAttempts - 1 /\ Ended(p))
              => /\ i < Len(hist[p])
                 /\ hist[p][i + 1].attempt = hist[p][i].attempt + 1
        /\ (Ended(p) /\ Statuses(hist[p]) = <<503, 503, 200>> /\ resp[p][1].body = "json")
            => /\ result[p].kind = "json"
               /\ delays[p] = <<200, 400>>
               /\ hist[p][3].attempt = 2
               /\ nreq[p] = 3

C5_Witness ==
    \E p \in Procs :
        /\ pc[p] = "done" /\ Statuses(hist[p]) = <<503, 503, 200>>
        /\ result[p].kind = "json"
        /\ delays[p] = <<200, 400>>

\* C6: a call that exhausts its attempts fails with an error that embeds the
\* failure of its final attempt.
C6_ExhaustionEmbedsFinalFailure ==
    \A p \in Procs :
        (Ended(p) /\ result[p].kind = "ApiError" /\ result[p].why = "exhausted")
            => result[p].embedded = <<hist[p][Len(hist[p])]>>

\* C7: an error status that is neither a first 401 nor transient ends the
\* call at once with a remote-API error carrying the status: no request, no
\* backoff and no invalidation follows it.
C7_FatalStatusEndsCall ==
    \A p \in Procs : \A i \in 1..Len(hist[p]) :
        IsFatal(hist[p], i)
        => /\ i = Len(hist[p])
           /\ pc[p] \in {"post_end", "post_ret", "done"}
           /\ nreq[p] = Cardinality({j \in 1..i : hist[p][j].kind \in {"resp", "net"}})
           /\ Len(delays[p]) = Cardinality({j \in 1..(i - 1) : IsRetried(hist[p][j])})
           /\ invals[p] = Cardinality({j \in 1..(i - 1) : Is401(hist[p][j])})
           /\ Ended(p) =>
                result[p] = PostResult("ApiError", hist[p][i].status, "status", None)

C7_Witness ==
    \E p \in Procs :
        /\ pc[p] = "done" /\ Statuses(hist[p]) = <<503, 404>>
        /\ result[p] = PostResult("ApiError", 404, "status", None)

\* C8: a call whose final response is a 2xx with an empty or non-JSON body
\* fails with a remote-API error (LegifranceApiError).
C8_BadBodyIsApiError ==
    \A p \in Procs :
        (Ended(p) /\ resp[p] # None /\ hist[p] # << >>
            /\ hist[p][Len(hist[p])].kind = "resp"
            /\ resp[p][1].status < 400 /\ resp[p][1].body = "bad")
        => result[p].kind = "ApiError"

\* a hint that is absent, empty or made of whitespace only
Blank(h) == h = NoStr \/ \A i \in 1..Len(h[1]) : IsSpace(h[1][i])

\* C9: in every call of resolve_code_article the normalized code title or
\* article number is empty exactly when the hint is absent, empty or
\* whitespace-only, and then the outcome is TooBroad and no token request
\* and no search or fetch call is made, whatever the date hint is
C9_BlankHintIsTooBroad ==
    \A p \in Procs :
        (mode = "res" /\ pc[p] # "idle") =>
            /\ Blank(hints[p][1]) <=> Falsy(code_title[p])
            /\ Blank(hints[p][2]) <=> Falsy(article_num[p])
            /\ (Blank(hints[p][1]) \/ Blank(hints[p][2])) =>
                   /\ pc[p] = "done"
                   /\ outcome[p].kind = "TooBroad"
                   /\ calls[p] = << >>
                   /\ tokReqs = 0
                   /\ nreq[p] = 0
                   /\ access_token = NoToken

\* a whitespace-only code hint, a usable article hint and a date hint that
\* does not parse ended TooBroad
C9_Witness ==
    \E p \in Procs :
        /\ mode = "res"
        /\ pc[p] = "done"
        /\ outcome[p].kind = "TooBroad"
        /\ hints[p][1] # NoStr
        /\ hints[p][1][1] # << >>
        /\ Blank(hints[p][1])
        /\ ~Blank(hints[p][2])
        /\ iso_date_to_millis(hints[p][3]).kind = "ValueError"

\* C10: when the primary or the fallback search returns a response that
\* yields no identifier (results missing, not a list, or only non-prefixed
\* ids), resolve_code_article ends at once with NotFound, and the calls it
\* made are searches only: no fetch is issued
C10_NoIdsIsNotFound ==
    \A p \in Procs :
        body_no_id[p] =>
            /\ pc[p] = "done"
            /\ outcome[p].kind = "NotFound"
            /\ ids[p] = << >>
            /\ \A i \in 1..Len(calls[p]) : calls[p][i].endpoint = "search"

\* the fallback search returned a response without ids: NotFound after two
\* searches
C10_Witness ==
    \E p \in Procs :
        /\ mode = "res"
        /\ pc[p] = "done"
        /\ stage[p] = "fallback"
        /\ outcome[p].kind = "NotFound"
        /\ body_no_id[p]
        /\ Len(calls[p]) = 2
        /\ result[p].kind = "json"

\* the calls a resolution made so far are searches only
OnlySearches(p) == \A i \in 1..Len(calls[p]) : calls[p][i].endpoint = "search"

\* C11: when the body a search returned carries n > 3 distinct prefixed
\* ids, resolve_code_article ends Ambiguous, its candidates are the first
\* min(n, 10) of them in order of first occurrence, and no fetch is issued
C11_ManyIdsIsAmbiguous ==
    \A p \in Procs :
        Len(body_ids[p]) > 3 =>
            /\ pc[p] = "done"
            /\ outcome[p].kind = "Ambiguous"
            /\ Len(outcome[p].candidates) =
                   (IF Len(body_ids[p]) < 10 THEN Len(body_ids[p]) ELSE 10)
            /\ \A i \in 1..Len(outcome[p].candidates) :
                   outcome[p].candidates[i] = body_ids[p][i]
            /\ OnlySearches(p)

\* a body with more than 10 distinct ids, repeated and nested under
\* "articles", ended Ambiguous with 10 candidates
C11_Witness ==
    \E p \in Procs :
        /\ pc[p] = "done"
        /\ outcome[p].kind = "Ambiguous"
        /\ Len(body_ids[p]) > 10
        /\ body_ids[p][1] = IdOf(2)
        /\ Len(outcome[p].candidates) = 10

\* the fetch calls a resolution made so far
Fetches(p) == {i \in 1..Len(calls[p]) : calls[p][i].endpoint = "getArticle"}

\* C12: when the body a search returned carries 1 to 3 distinct prefixed
\* ids, resolve_code_article is never Ambiguous, NotFound or TooBroad: it
\* issues one fetch, for the first id, as its last call, and when the fetch
\* returns a body the outcome is Resolved with that id and the normalized
\* article number (a failed fetch ends the call with the fetch's error)
C12_FewIdsResolveFirst ==
    \A p \in Procs :
        Len(body_ids[p]) \in 1..3 =>
            /\ stage[p] = "fetch"
            /\ Fetches(p) = {Len(calls[p])}
            /\ calls[p][Len(calls[p])].id = <<body_ids[p][1]>>
            /\ outcome[p].kind \notin {"Ambiguous", "NotFound", "TooBroad"}
            /\ (pc[p] = "done" /\ result[p].kind = "json") =>
                   /\ outcome[p].kind = "Resolved"
                   /\ outcome[p].legiarti_id = <<body_ids[p][1]>>
                   /\ outcome[p].article_num = normalize_article_num(hints[p][2])
                   /\ ~Falsy(outcome[p].article_num)
            /\ (pc[p] = "done" /\ result[p].kind # "json") =>
                   outcome[p].kind = result[p].kind

\* a body with three ids, the first of them nested, resolved to the first;
\* the article hint "L 12 -1" came back as "L12-1"
C12_Witness ==
    \E p \in Procs :
        /\ pc[p] = "done"
        /\ outcome[p].kind = "Resolved"
        /\ Len(body_ids[p]) = 3
        /\ body_ids[p][1] = IdOf(2)
        /\ outcome[p].legiarti_id = <<IdOf(2)>>
        /\ hints[p][2] = TypicalArticle
        /\ outcome[p].article_num = <<<<"L", "1", "2", "-", "1">>>>

\* the search calls a resolution made so far
Searches(p) == {i \in 1..Len(calls[p]) : calls[p][i].endpoint = "search"}

\* the broadened query: the code title alone, in force, five per page
BroadQuery(p) ==
    [fond |-> "CODE_ETAT",
     champs |-> <<[typeChamp |-> "TEXT_NOM_CODE", typeRecherche |-> "EXACTE",
                   valeur |-> code_title[p][1]]>>,
     filtres |-> <<[facette |-> "TEXT_LEGAL_STATUS", singleDate |-> << >>,
                    valeur |-> <<"VIGUEUR">>]>>,
     pageNumber |-> 1, pageSize |-> 5]

\* C13: a resolution makes at most two searches and the second is the
\* broadened query (code title only, page size 5, no date or article
\* criterion); when the primary search ends with an error the next step
\* issues that fallback search, when it returns a body no fallback search
\* follows; when the fallback search ends with an error the call ends with
\* that same error and no further call
C13_OneFallbackAfterError ==
    /\ [](\A p \in Procs :
            /\ Searches(p) \subseteq {1, 2}
            /\ 2 \in Searches(p) => calls[p][2].search = <<BroadQuery(p)>>
            /\ stage[p] = "fallback" => Searches(p) = {1, 2} /\ Len(calls[p]) = 2)
    /\ [][\A p \in Procs :
            /\ (stage[p] = "primary" /\ pc[p] = "post_ret" /\ result[p].kind # "json") =>
                   /\ stage'[p] = "fallback"
                   /\ pc'[p] = "post_begin"
                   /\ calls'[p] = Append(calls[p],
                          [endpoint |-> "search", search |-> <<BroadQuery(p)>>, id |-> NoStr])
            /\ (stage[p] = "primary" /\ pc[p] = "post_ret" /\ result[p].kind = "json") =>
                   /\ stage'[p] # "fallback"
                   /\ Searches(p)' = {1}
            /\ (stage[p] = "fallback" /\ pc[p] = "post_ret" /\ result[p].kind # "json") =>
                   /\ pc'[p] = "done"
                   /\ outcome'[p].kind = result[p].kind
                   /\ outcome'[p].error = result[p]
                   /\ calls'[p] = calls[p]]_vars

\* the primary search carried a date filter and failed; the fallback
\* search failed as well and its error ended the call
C13_Witness ==
    \E p \in Procs :
        /\ pc[p] = "done"
        /\ stage[p] = "fallback"
        /\ Len(calls[p]) = 2
        /\ Len(calls[p][1].search[1].filtres) = 2
        /\ Len(calls[p][1].search[1].champs) = 2
        /\ result[p].kind = "ApiError"
        /\ outcome[p].kind = "ApiError"

\* the entries of a sequence are pairwise different
NoRepeat(s) == \A i, j \in 1..Len(s) : s[i] = s[j] => i = j

\* C14: over a JSON object, every run of the extraction returns the
\* prefixed ids of the body, each once, ordered by first occurrence (within
\* a result the "articles" entries before the result's own id); ids
\* without the prefix are absent; all runs return the same list
C14_ExtractionIsOrderedDedup ==
    mode = "ext" =>
        \A n \in 1..Len(runs) :
            /\ runs[n] = runs[1]
            /\ ext_body.t = "dict" =>
                   /\ runs[n].kind = "val"
                   /\ NoRepeat(runs[n].ids)
                   /\ \A i \in 1..Len(runs[n].ids) : HasPrefix(JStr(runs[n].ids[i]))
                   /\ {runs[n].ids[i] : i \in 1..Len(runs[n].ids)}
                          = {o[3] : o \in Occurrences(ext_body)}
                   /\ runs[n].ids = FirstSeenIds(ext_body)

\* two runs over a body where an id is repeated, where the first id seen
\* stands under "articles", and where a result carries an id of another kind
C14_Witness ==
    /\ mode = "ext"
    /\ Len(runs) = 2
    /\ runs[2].ids = <<IdOf(2), IdOf(1)>>
    /\ Cardinality(Occurrences(ext_body)) > 2
    /\ ext_body.t = "dict"
    /\ Get(ext_body, "results").t = "list"
    /\ \E i \in 1..Len(Get(ext_body, "results").v) :
           LET item == Get(ext_body, "results").v[i] IN
           /\ item.t = "dict"
           /\ Get(item, "id").t = "str"
           /\ Get(item, "id").v = LEGITEXT1

\* a payload field that holds a non-empty string
Present(payload, k) == Get(payload, k).t = "str" /\ Get(payload, k).v # << >>
\* a payload field that holds exactly the string s
Named(payload, k, s) == Get(payload, k).t = "str" /\ Get(payload, k).v = s
\* resolve_code_article has been called for p
Invoked(p) == hints[p] # <<NoStr, NoStr, NoStr>>
\* nothing was sent for p, and the resolution engine was not called
NoNetwork(p) ==
    /\ ~Invoked(p)
    /\ tokReqs = 0
    /\ calls[p] = << >>
    /\ nreq[p] = 0
    /\ outcome[p] = NoOutcome
\* the dispatcher answered p with the failure dict of that code
FailedWith(p, code, message) ==
    /\ pc[p] = "returned"
    /\ response[p].kind = "returned"
    /\ Get(response[p].body, "ok") = JBool(FALSE)
    /\ Get(response[p].body, "error") = JStr(code)
    /\ Get(response[p].body, "message") = JStr(message)
\* the list the TOO_VAGUE answer carries
MissingInfo(payload) ==
    IF Get(payload, "missing_info").t = "list" /\ Get(payload, "missing_info").v # << >>
    THEN Get(payload, "missing_info")
    ELSE JList(<< >>)

\* C15: dispatch_from_make_json decides by priority: intent NOT_LEGAL gives
\* NOT_LEGAL; else intent TOO_VAGUE gives TOO_VAGUE with the payload's
\* missing-info list; else a route target other than RESOLVE gives
\* WRONG_ROUTE; else both hints present calls resolve_code_article with the
\* payload's hints; else NOT_IMPLEMENTED.  Nothing is sent and the engine is
\* not called in the four cases that do not delegate.
C15_DispatchPriority ==
    mode = "disp" =>
        \A p \in Procs :
            pc[p] # "idle" =>
                LET q == request[p] IN
                IF Named(q, "intent", NOT_LEGAL)
                THEN /\ FailedWith(p, NOT_LEGAL, NOT_LEGAL_MESSAGE)
                     /\ NoNetwork(p)
                ELSE IF Named(q, "intent", TOO_VAGUE)
                THEN /\ FailedWith(p, TOO_VAGUE, TOO_VAGUE_MESSAGE)
                     /\ Get(response[p].body, "missing_info") = MissingInfo(q)
                     /\ NoNetwork(p)
                ELSE IF ~Named(q, "route_target", RESOLVE)
                THEN /\ FailedWith(p, WRONG_ROUTE, WRONG_ROUTE_MESSAGE)
                     /\ NoNetwork(p)
                ELSE IF Present(q, "code_hint") /\ Present(q, "article_hint")
                THEN /\ Invoked(p)
                     /\ hints[p][1] = <<Get(q, "code_hint").v>>
                     /\ hints[p][2] = <<Get(q, "article_hint").v>>
                     /\ hints[p][3] = IF Present(q, "date_hint")
                                      THEN <<Get(q, "date_hint").v>> ELSE NoStr
                     /\ pc[p] = "returned" => outcome[p].kind # "none"
                ELSE /\ FailedWith(p, NOT_IMPLEMENTED, NOT_IMPLEMENTED_MESSAGE)
                     /\ NoNetwork(p)

\* a payload with intent LEGAL, route RESOLVE and both hints was delegated,
\* requests were sent, and the article came back in the answer
C15_Witness ==
    /\ mode = "disp"
    /\ \E p \in Procs :
           /\ pc[p] = "returned"
           /\ Named(request[p], "intent", LEGAL)
           /\ Named(request[p], "route_target", RESOLVE)
           /\ Present(request[p], "code_hint")
           /\ Present(request[p], "article_hint")
           /\ Invoked(p)
           /\ Len(calls[p]) = 2
           /\ tokReqs > 0
           /\ outcome[p].kind = "Resolved"
           /\ response[p].kind = "returned"

\* the four outcomes of the resolution engine
EngineOutcomes == {"Resolved", "NotFound", "TooBroad", "Ambiguous"}

\* C16: once the dispatcher has delegated and the engine has ended with one
\* of its four outcomes, the dispatcher returns a wire response: the ok
\* response with the article fields for Resolved, and a failure response
\* with an error code and a message for NotFound, TooBroad and Ambiguous;
\* no outcome leaves the dispatcher as an exception
C16_EngineOutcomesTranslated ==
    mode = "disp" =>
        \A p \in Procs :
            (pc[p] = "returned" /\ outcome[p].kind \in EngineOutcomes) =>
                /\ response[p].kind = "returned"
                /\ IF outcome[p].kind = "Resolved"
                   THEN /\ Get(response[p].body, "ok") = JBool(TRUE)
                        /\ Get(response[p].body, "legiarti_id")
                               = JStr(outcome[p].legiarti_id[1])
                        /\ Get(response[p].body, "raw") = outcome[p].raw
                   ELSE /\ Get(response[p].body, "ok") = JBool(FALSE)
                        /\ Get(response[p].body, "error").t = "str"
                        /\ Get(response[p].body, "message").t = "str"

\* valid date hints and the milliseconds from the epoch to UTC midnight of
\* their day, as the pair <<millions, rest>>
EpochDay == <<<<"1", "9", "7", "0", "-", "0", "1", "-", "0", "1">>>>
MidnightMillis ==
    (TypicalDate :> <<1577836, 800000>>)
    @@ (<<<<"2", "0", "2", "0", "/", "0", "1", "/", "0", "1">>>> :> <<1577836, 800000>>)
    @@ (EpochDay :> <<0, 0>>)
    @@ (<<<<"1", "9", "7", "0", "-", "0", "1", "-", "0", "2">>>> :> <<86, 400000>>)
\* the places of the date-version filters in a list of filters
DateFilters(filtres) == {i \in 1..Len(filtres) : filtres[i].facette = "DATE_VERSION"}

\* C17: the primary query of resolve_code_article holds a date-version
\* filter exactly when a date hint is given: for a valid date hint, the
\* epoch day included, one filter with the milliseconds of UTC midnight of
\* that day, the same for the - and / spellings; for no date hint, none
C17_DateFilterIffDateHint ==
    mode = "res" =>
        \A p \in Procs :
            calls[p] # << >> =>
                LET filtres == calls[p][1].search[1].filtres
                    date_hint == hints[p][3]
                IN /\ date_hint = NoStr => DateFilters(filtres) = {}
                   /\ date_hint \in DOMAIN MidnightMillis =>
                          /\ Cardinality(DateFilters(filtres)) = 1
                          /\ \A i \in DateFilters(filtres) :
                                 filtres[i].singleDate = <<MidnightMillis[date_hint]>>

\* the last transport call of p's resolution ended with LegifranceAuthError
AuthFailed(p) == result[p].kind = "AuthError"

\* C18: an authentication error is fatal and not retried: the transport
\* call it ends has made no backoff for it, and from then on no token
\* request and no API request is sent for that resolution, which ends with
\* the authentication error
C18_AuthErrorIsFinal ==
    /\ [](mode = "res" =>
            \A p \in Procs :
                /\ (AuthFailed(p) /\ pc[p] = "post_ret") =>
                       (hist[p] # << >> /\ hist[p][Len(hist[p])].kind = "tokauth")
                /\ (AuthFailed(p) /\ pc[p] = "done") => outcome[p].kind = "AuthError")
    /\ [][mode = "res" =>
            \A p \in Procs :
                AuthFailed(p) => (tokReqs' = tokReqs /\ nreq'[p] <= nreq[p])]_vars

\* C19: when the client id or the client secret is missing, no request is
\* sent to the token endpoint or to the API, the token cache stays empty,
\* and every get_token call and every transport call that has ended has
\* ended with the authentication error; the one transport call that does
\* not is the call that never asked for a token, because
\* LEGIFRANCE_API_BASE is empty
NeverAskedForToken(p) ==
    /\ Posting
    /\ BaseIsEmpty(api_base)
    /\ ret[p].kind = "none"
    /\ result[p].why = "empty_base"

C19_MissingCredentialsFailFirst ==
    (~creds.client_id \/ ~creds.client_secret) =>
        /\ tokReqs = 0
        /\ issued = 0
        /\ access_token = NoToken
        /\ token_expires_at = None
        /\ \A p \in Procs :
               /\ nreq[p] = 0
               /\ sent[p] = NoToken
               /\ ret[p].kind \in {"none", "AuthError"}
               /\ result[p].kind \in {"none", "AuthError", "ApiError"}
               /\ result[p].kind = "ApiError" => NeverAskedForToken(p)
               /\ (pc[p] = "done" /\ ~Resolving) =>
                      result[p].kind = (IF Posting /\ BaseIsEmpty(api_base)
                                        THEN "ApiError" ELSE "AuthError")

\* the secret alone is missing, and two concurrent transport calls have
\* both ended with the authentication error
C19_Witness ==
    /\ mode = "conc"
    /\ ~BaseIsEmpty(api_base)
    /\ creds.client_id
    /\ ~creds.client_secret
    /\ \A p \in Procs : pc[p] = "done" /\ result[p].kind = "AuthError"
    /\ tokReqs = 0

\* p's call invalidates the token cache in this step (after a 401)
Invalidates(p) == invals'[p] = invals[p] + 1

\* C20: with concurrent transport calls, a 401 clears the cached token only
\* when the rejected request carried that very token: a late 401 for an
\* older token leaves a newer cached token in place, so the calls
\* rejected for one stale token cause one token request between them
C20_Late401KeepsNewerToken ==
    [][mode = "conc" =>
        \A p \in Procs :
            (Invalidates(p) /\ access_token # NoToken /\ sent[p] # access_token) =>
                /\ access_token' = access_token
                /\ token_expires_at' = token_expires_at]_vars

\* the API requests a call may send when it never invalidates the cache
RequestsWithout401 == MaxAttempts
\* the API requests a call may send at most
MaxRequests == MaxAttempts + 1

\* C21: one _post_legifrance call sends at most 4 requests to the API: at
\* most one per attempt of the loop, and one more for the single retry
\* after a 401; it sends more than 3 only when it has received a 401
C21_AtMostFourRequests ==
    \A p \in Procs :
        /\ nreq[p] <= MaxRequests
        /\ nreq[p] <= Cardinality({hist[p][i].attempt : i \in 1..Len(hist[p])}) + 1
                      + invals[p]
        /\ nreq[p] > RequestsWithout401 => \E i \in 1..Len(hist[p]) : Is401(hist[p][i])
        /\ Cardinality({i \in 1..Len(hist[p]) : hist[p][i].kind \in {"resp", "net"}})
               <= MaxRequests

\* a call that ended after 4 requests: a 401 in one attempt, and a
\* transient failure in each of the three attempts
C21_Witness ==
    /\ mode = "post"
    /\ \E p \in Procs :
           /\ pc[p] = "done"
           /\ nreq[p] = MaxRequests
           /\ invals[p] = 1
           /\ attempt[p] = MaxAttempts - 1
           /\ result[p].why = "exhausted"
           /\ \E i \in 1..Len(hist[p]) : Is401(hist[p][i])

\* p's refresh fails in this step: at the credentials test, or when the
\* token endpoint's reply arrives
RefreshFails(p) ==
    /\ pc[p] \in {"fetch_start", "fetch_wait"}
    /\ pc'[p] = "gt_ret"
    /\ ret'[p].kind # "val"
\* p's refresh is under way and does not succeed in this step
RefreshPending(p) ==
    /\ pc[p] \in {"fetch_start", "fetch_wait"}
    /\ ~(pc'[p] = "gt_ret" /\ ret'[p].kind = "val")

\* C22: from the start of a token refresh to its failure the cached token
\* and expiry stay as they were, and the failure releases the lock; a
\* failure is not cached: when no refresh ever succeeded, every caller has
\* made its own token request, one after the other, and got the error
C22_FailedRefreshChangesNothing ==
    /\ [][mode = "tok" =>
            \A p \in Procs :
                /\ RefreshPending(p) =>
                       /\ access_token' = access_token
                       /\ token_expires_at' = token_expires_at
                /\ RefreshFails(p) =>
                       /\ lock_holder = p
                       /\ lock_holder' = Release(p)]_vars
    /\ [](mode = "tok" =>
            /\ (HasCredentials /\ issued = 0) =>
                   /\ access_token = NoToken
                   /\ tokReqs = Cardinality({p \in Procs :
                          pc[p] \in {"fetch_wait", "gt_ret", "done"}})
                   /\ \A p \in Procs :
                          pc[p] = "done" => result[p].kind \in {"AuthError", "NetError"}
            /\ AllDone => (lock_holder = NoProc /\ lock_waiters = << >>))

\* three callers queued on the lock, every refresh failed, one failure of
\* each kind was met, and three token requests were made
C22_Witness ==
    /\ mode = "tok"
    /\ AllDone
    /\ HasCredentials
    /\ issued = 0
    /\ tokReqs = Cardinality(Procs)
    /\ \E p, q \in Procs : result[p].kind = "AuthError" /\ result[q].kind = "NetError"

\* the tasks of the largest scenario
AnyCaller == 1..LiveCallers
\* p's get_token or _post_legifrance call has begun and has not ended
InCall(p) == p \in Procs /\ pc[p] \notin {"idle", "done"}
\* p's call is over, with a value or an error
CallOver(p) == p \in Procs /\ pc[p] = "done" /\ result[p].kind # "none"

\* p waits for the lock
Waiting(p) == p \in Procs /\ pc[p] = "gt_wait"

\* C23: when every request is answered or fails, every get_token call and
\* every _post_legifrance call that has begun ends with a result or an
\* error, whatever the number of concurrent callers: a held lock is
\* released, a caller waiting on the lock gets past it, and no call goes
\* beyond its third attempt
C23_EveryCallTerminates ==
    /\ \A p \in AnyCaller : InCall(p) ~> CallOver(p)
    /\ \A p \in AnyCaller : (lock_holder = p) ~> (lock_holder # p)
    /\ \A p \in AnyCaller : Waiting(p) ~> ~Waiting(p)
    /\ [](\A p \in Procs : attempt[p] < MaxAttempts)

\* the concurrent get_token callers are over; more than one token request
\* was made and a refresh failed
C23_Witness ==
    /\ mode = "live"
    /\ \A p \in Procs : CallOver(p)
    /\ tokReqs > 1
    /\ \E p \in Procs : result[p].kind \in {"AuthError", "NetError"}

\* the last API call p's resolution has started
LastCall(p) == calls[p][Len(calls[p])]
\* p's resolution starts an API call in this step
StartsCall(p) == Len(calls'[p]) = Len(calls[p]) + 1

\* C24: the API calls of a resolve_code_article execution come in the
\* order search, then fetch: one or two searches, the second started only
\* when the first has failed; then at most one fetch, started only when a
\* search has returned a body that yields 1 to 3 ids, and for the first of
\* them; the fetch is the last call: after it, failed or not, the engine
\* starts no search and no second fetch
C24_SearchThenFetch ==
    /\ [](Resolving =>
            \A p \in Procs :
                calls[p] # << >> =>
                    /\ Len(calls[p]) <= 3
                    /\ calls[p][1].endpoint = "search"
                    /\ Cardinality(Searches(p)) \in 1..2
                    /\ Cardinality(Fetches(p)) <= 1
                    /\ \A i \in Fetches(p) : i = Len(calls[p])
                    /\ Fetches(p) # {} =>
                           /\ Len(body_ids[p]) \in 1..3
                           /\ LastCall(p).id = <<body_ids[p][1]>>
                    /\ (Fetches(p) # {} /\ pc[p] = "done" /\ result[p].kind # "json") =>
                           outcome[p].kind = result[p].kind)
    /\ [][Resolving =>
            \A p \in Procs :
                /\ (StartsCall(p) /\ calls[p] # << >>) =>
                       /\ LastCall(p).endpoint = "search"
                       /\ pc[p] = "post_ret"
                       /\ LastCall(p)'.endpoint = "search" =>
                              (Len(calls[p]) = 1 /\ result[p].kind # "json")
                       /\ LastCall(p)'.endpoint = "getArticle" => result[p].kind = "json"
                /\ Fetches(p) # {} => calls'[p] = calls[p]]_vars

\* the primary search failed, the fallback search returned two ids, the
\* first was fetched, the fetch failed and ended the call
C24_Witness ==
    /\ mode = "res"
    /\ \E p \in Procs :
           /\ pc[p] = "done"
           /\ Len(calls[p]) = 3
           /\ Searches(p) = {1, 2}
           /\ Fetches(p) = {3}
           /\ Len(body_ids[p]) = 2
           /\ result[p].kind = "ApiError"
           /\ outcome[p].kind = "ApiError"

\* event i of p's call is a timeout or connection failure of a token request
TokenNetFailure(p, i) == hist[p][i].kind = "toknet"
\* the failures up to event i that the loop retried
RetriedUpTo(p, i) == Cardinality({j \in 1..i : IsRetried(hist[p][j])})
\* the tokens p's requests carried before event i
TokensBefore(p, i) == {hist[p][j].token : j \in 1..(i - 1)}

\* C25: in a _post_legifrance call a timeout or connection failure of the
\* token request is handled as one of the API request is: it uses up the
\* attempt, the backoff of that attempt follows, and the next attempt
\* acquires a token again; the third such attempt exhausts the call; when
\* it happens in the retry after a 401, the call invalidates no second time
C25_TokenNetFailureIsRetried ==
    /\ [](mode = "post" =>
            \A p \in Procs : \A i \in 1..Len(hist[p]) :
                TokenNetFailure(p, i) =>
                    /\ hist[p][i].attempt < MaxAttempts
                    /\ hist[p][i].token = NoToken
                    /\ Len(delays[p]) >= RetriedUpTo(p, i)
                    /\ delays[p][RetriedUpTo(p, i)]
                           = BackoffBaseMs * Pow2(hist[p][i].attempt)
                    /\ i < Len(hist[p]) =>
                           /\ hist[p][i + 1].attempt = hist[p][i].attempt + 1
                           /\ hist[p][i + 1].kind \in {"resp", "net"} =>
                                  /\ hist[p][i + 1].token # NoToken
                                  /\ hist[p][i + 1].token \notin TokensBefore(p, i)
                    /\ (Ended(p) /\ hist[p][i].attempt < MaxAttempts - 1) =>
                           i < Len(hist[p])
                    /\ (Ended(p) /\ hist[p][i].attempt = MaxAttempts - 1) =>
                           /\ i = Len(hist[p])
                           /\ result[p].kind = "ApiError"
                           /\ result[p].why = "exhausted"
                    /\ (\E j \in 1..(i - 1) : Is401(hist[p][j])) => invals[p] = 1)
    /\ [][mode = "post" =>
            \A p \in Procs :
                (pc[p] = "gt_ret" /\ ret[p].kind = "NetError") =>
                    /\ pc'[p] = "sleep"
                    /\ delays'[p] = Append(delays[p], BackoffBaseMs * Pow2(attempt[p]))
                    /\ hist'[p] = Append(hist[p],
                           [kind |-> "toknet", status |-> 0, attempt |-> attempt[p],
                            token |-> NoToken])
                    /\ nreq'[p] = nreq[p]
                    /\ invals'[p] = invals[p]
                    /\ refreshed_after_401'[p] = refreshed_after_401[p]]_vars

\* a 401, then the token request of the retry failed on the network in the
\* same attempt; the next attempt got a new token and a second 401, which
\* ended the call without a second invalidation
C25_Witness ==
    /\ mode = "post"
    /\ \E p \in Procs :
           /\ pc[p] = "done"
           /\ Len(hist[p]) = 3
           /\ Is401(hist[p][1])
           /\ TokenNetFailure(p, 2)
           /\ hist[p][2].attempt = hist[p][1].attempt
           /\ Is401(hist[p][3])
           /\ hist[p][3].attempt = 1
           /\ invals[p] = 1
           /\ delays[p] = <<BackoffBaseMs>>
           /\ result[p] = PostResult("ApiError", 401, "status", None)

====
